---- MODULE Spec2Model ----
(***************************************************************************)
(* RDF-to-diagram conversion engine of docs/docs_HTML/scripts/             *)
(* ttl_to_graphviz.py: graph collection, size caps, remote enrichment,     *)
(* hierarchy expansion, label resolution and identifier assignment.        *)
(*                                                                         *)
(* Strings are sequences of one-character strings, so that slugging,       *)
(* lexicographic sorting and decimal formatting are computed, not assumed. *)
(* A node is a record [t, ns, l]: t is "U" (URIRef), "B" (BNode) or "L"    *)
(* (Literal); ns names the namespace IRI of a URIRef and the language tag  *)
(* of a Literal ("" for none), l is the local part (the blank-node id, the *)
(* lexical form).                                                          *)
(***************************************************************************)
EXTENDS Integers, Sequences, FiniteSets, TLC

\* ------------------------------------------------------------------------
\* Characters and strings
\* ------------------------------------------------------------------------

\* Code points of the characters used by the documents of the model.
Ord ==
  (" " :> 32) @@ ("-" :> 45) @@ ("." :> 46) @@ (":" :> 58) @@
  ("0" :> 48) @@ ("1" :> 49) @@ ("2" :> 50) @@ ("3" :> 51) @@
  ("4" :> 52) @@ ("5" :> 53) @@ ("6" :> 54) @@ ("7" :> 55) @@
  ("8" :> 56) @@ ("9" :> 57) @@ ("A" :> 65) @@ ("B" :> 66) @@
  ("C" :> 67) @@ ("D" :> 68) @@ ("E" :> 69) @@ ("F" :> 70) @@
  ("G" :> 71) @@ ("H" :> 72) @@ ("I" :> 73) @@ ("J" :> 74) @@
  ("K" :> 75) @@ ("L" :> 76) @@ ("M" :> 77) @@ ("N" :> 78) @@
  ("O" :> 79) @@ ("P" :> 80) @@ ("Q" :> 81) @@ ("R" :> 82) @@
  ("S" :> 83) @@ ("T" :> 84) @@ ("U" :> 85) @@ ("V" :> 86) @@
  ("W" :> 87) @@ ("X" :> 88) @@ ("Y" :> 89) @@ ("Z" :> 90) @@
  ("_" :> 95) @@ ("a" :> 97) @@ ("b" :> 98) @@ ("c" :> 99) @@
  ("d" :> 100) @@ ("e" :> 101) @@ ("f" :> 102) @@ ("g" :> 103) @@
  ("h" :> 104) @@ ("i" :> 105) @@ ("j" :> 106) @@ ("k" :> 107) @@
  ("l" :> 108) @@ ("m" :> 109) @@ ("n" :> 110) @@ ("o" :> 111) @@
  ("p" :> 112) @@ ("q" :> 113) @@ ("r" :> 114) @@ ("s" :> 115) @@
  ("t" :> 116) @@ ("u" :> 117) @@ ("v" :> 118) @@ ("w" :> 119) @@
  ("x" :> 120) @@ ("y" :> 121) @@ ("z" :> 122)

IsDigit(c) == Ord[c] >= 48 /\ Ord[c] <= 57

IsAlnumUnderscore(c) ==
  \/ IsDigit(c)
  \/ Ord[c] >= 65 /\ Ord[c] <= 90
  \/ Ord[c] >= 97 /\ Ord[c] <= 122
  \/ c = "_"

\* Python's str < str : lexicographic by code point, a proper prefix first.
RECURSIVE StrLess(_, _)
StrLess(a, b) ==
  IF b = <<>> THEN FALSE
  ELSE IF a = <<>> THEN TRUE
  ELSE IF Head(a) # Head(b) THEN Ord[Head(a)] < Ord[Head(b)]
  ELSE StrLess(Tail(a), Tail(b))

\* re.sub(r"[^A-Za-z0-9_]", "_", raw)
RECURSIVE ReplaceNonWord(_)
ReplaceNonWord(s) ==
  IF s = <<>> THEN <<>>
  ELSE <<IF IsAlnumUnderscore(Head(s)) THEN Head(s) ELSE "_">> \o ReplaceNonWord(Tail(s))

\* re.sub(r"_+", "_", s)
RECURSIVE CollapseUnderscores(_)
CollapseUnderscores(s) ==
  IF Len(s) < 2 THEN s
  ELSE IF Head(s) = "_" /\ Head(Tail(s)) = "_" THEN CollapseUnderscores(Tail(s))
  ELSE <<Head(s)>> \o CollapseUnderscores(Tail(s))

\* s.strip("_")
RECURSIVE StripLeft(_)
StripLeft(s) == IF s # <<>> /\ Head(s) = "_" THEN StripLeft(Tail(s)) ELSE s

RECURSIVE StripRight(_)
StripRight(s) ==
  IF s # <<>> /\ s[Len(s)] = "_" THEN StripRight(SubSeq(s, 1, Len(s) - 1)) ELSE s

StripUnderscores(s) == StripRight(StripLeft(s))

safe_mermaid_id(raw) ==
  LET s1 == StripUnderscores(CollapseUnderscores(ReplaceNonWord(raw)))
      s2 == IF s1 = <<>> THEN <<"n">> ELSE s1
  IN  IF IsDigit(Head(s2)) THEN <<"n", "_">> \o s2 ELSE s2

\* str(int) for a non-negative integer, as the f-string formats the suffix.
DigitChar == <<"0", "1", "2", "3", "4", "5", "6", "7", "8", "9">>

RECURSIVE Decimal(_)
Decimal(n) ==
  IF n < 10 THEN <<DigitChar[n + 1]>>
  ELSE Decimal(n \div 10) \o <<DigitChar[(n % 10) + 1]>>

Abs(n) == IF n < 0 THEN 0 - n ELSE n

IsUpper(c) == Ord[c] >= 65 /\ Ord[c] <= 90
IsLetter(c) == IsUpper(c) \/ (Ord[c] >= 97 /\ Ord[c] <= 122)

LowerChars == <<"a", "b", "c", "d", "e", "f", "g", "h", "i", "j", "k", "l", "m",
                "n", "o", "p", "q", "r", "s", "t", "u", "v", "w", "x", "y", "z">>

\* str.lower() on one character
LowerChar(c) == IF IsUpper(c) THEN LowerChars[Ord[c] - 64] ELSE c

Lower(s) == [k \in DOMAIN s |-> LowerChar(s[k])]

\* s.replace(a, b) for single characters
ReplaceChar(s, a, b) == [k \in DOMAIN s |-> IF s[k] = a THEN b ELSE s[k]]

\* ------------------------------------------------------------------------
\* Nodes, predicates, triples
\* ------------------------------------------------------------------------

U(ns, l) == [t |-> "U", ns |-> ns, l |-> l]
BN(l)    == [t |-> "B", ns |-> "", l |-> l]
Lit(l)   == [t |-> "L", ns |-> "", l |-> l]
LangLit(lang, l) == [t |-> "L", ns |-> lang, l |-> l]

IsURIRef(n)  == n.t = "U"
IsBNode(n)   == n.t = "B"
IsLiteral(n) == n.t = "L"

\* Rank of the namespace IRIs in code-point order:
\* http://example.org/ < http://purl.obolibrary.org/obo/ < http://unbound.net/
\* < ...w3.org/1999/02/22-rdf-syntax-ns# < ...w3.org/2000/01/rdf-schema#
\* < ...w3.org/2002/07/owl# < ...w3.org/ns/shacl#
NsRank ==
  ("" :> 0) @@ ("ex" :> 1) @@ ("obo" :> 2) @@ ("un" :> 3) @@ ("rdf" :> 4) @@
  ("rdfs" :> 5) @@ ("owl" :> 6) @@ ("sh" :> 7)

\* Namespaces the namespace manager of a parsed document can shorten.
BoundNamespaces == {"ex", "obo", "rdf", "rdfs", "owl", "sh"}

\* str(a) < str(b): no namespace IRI is a prefix of another, so the IRIs of
\* two namespaces compare as the namespaces do.
NodeStrLess(a, b) ==
  IF IsURIRef(a) /\ IsURIRef(b) /\ a.ns # b.ns
  THEN NsRank[a.ns] < NsRank[b.ns]
  ELSE StrLess(a.l, b.l)

RDF_type        == "rdf:type"
RDF_first       == "rdf:first"
RDF_rest        == "rdf:rest"
RDFS_subClassOf == "rdfs:subClassOf"
RDFS_label      == "rdfs:label"
SH_in           == "sh:in"
SH_or           == "sh:or"
SH_and          == "sh:and"
SH_xone         == "sh:xone"
SH_not          == "sh:not"
SH_property     == "sh:property"
EX_p            == "ex:p"
OBO_BFO_3       == "obo:BFO_3"

RDF_nil        == U("rdf", <<"n", "i", "l">>)
OWL_Class      == U("owl", <<"C", "l", "a", "s", "s">>)
OWL_Ontology   == U("owl", <<"O", "n", "t", "o", "l", "o", "g", "y">>)
OWL_Thing      == U("owl", <<"T", "h", "i", "n", "g">>)
RDFS_Class     == U("rdfs", <<"C", "l", "a", "s", "s">>)
RDFS_Resource  == U("rdfs", <<"R", "e", "s", "o", "u", "r", "c", "e">>)
SH_NodeShape     == U("sh", <<"N", "o", "d", "e", "S", "h", "a", "p", "e">>)
SH_PropertyShape == U("sh", <<"P", "r", "o", "p", "e", "r", "t", "y", "S", "h", "a", "p", "e">>)
SH_Shape         == U("sh", <<"S", "h", "a", "p", "e">>)

IMPLICIT_TOP_CLASSES == {OWL_Thing, RDFS_Resource}

SHACL_LIST_PREDICATES == {SH_in, SH_or, SH_and, SH_xone, SH_not}

\* ------------------------------------------------------------------------
\* RDF lists
\* ------------------------------------------------------------------------

Objects(g, s, p) == {t[3] : t \in {x \in g : x[1] = s /\ x[2] = p}}

\* Collection(g, head) iterated: follows rdf:rest from head, yielding each
\* rdf:first; a list that runs back into itself raises, which
\* _extract_list_items turns into None (ok = FALSE).
RECURSIVE ListWalk(_, _, _, _)
ListWalk(g, cur, chain, acc) ==
  LET firsts == Objects(g, cur, RDF_first)
      rests  == Objects(g, cur, RDF_rest)
      acc2   == IF firsts = {} THEN acc ELSE Append(acc, CHOOSE x \in firsts : TRUE)
  IN  IF rests = {} THEN [ok |-> TRUE, items |-> acc2]
      ELSE LET nxt == CHOOSE x \in rests : TRUE
           IN  IF nxt \in chain THEN [ok |-> FALSE, items |-> <<>>]
               ELSE ListWalk(g, nxt, chain \cup {nxt}, acc2)

extract_list_items(g, head) == ListWalk(g, head, {head}, <<>>)

\* `if items:` of the callers: a list was read and it is not empty.
HasItems(r) == r.ok /\ r.items # <<>>

SeqToSet(s) == {s[k] : k \in DOMAIN s}

\* ------------------------------------------------------------------------
\* Documents: a pattern file is a set of Turtle statements of this menu
\* ------------------------------------------------------------------------

ExA   == U("ex", <<"A">>)
ExS   == U("ex", <<"S">>)
ExI   == U("ex", <<"i">>)
BFO_1 == U("obo", <<"B", "F", "O", "_", "1">>)
BFO_2 == U("obo", <<"B", "F", "O", "_", "2">>)
BFO_3 == U("obo", <<"B", "F", "O", "_", "3">>)
Bp    == BN(<<"b", "p">>)
B1    == BN(<<"b", "1">>)
B2    == BN(<<"b", "2">>)
B3    == BN(<<"b", "3">>)
B4    == BN(<<"b", "4">>)
B5    == BN(<<"b", "5">>)
LitXY    == Lit(<<"x", " ", "y">>)
LitDe    == LangLit("de", <<"d", "e">>)
LitEmpty == Lit(<<>>)
LitSp == Lit(<<"a", " ", "b">>)
LitUs == Lit(<<"a", "_", "b">>)
LitHy == Lit(<<"a", "-", "b">>)

\* Each entry is the triple sequence one Turtle statement parses to.
Menu == <<
  \* ex:A a owl:Class .
  << <<ExA, RDF_type, OWL_Class>> >>,
  \* ex:A rdfs:subClassOf obo:BFO_3 .
  << <<ExA, RDFS_subClassOf, BFO_3>> >>,
  \* ex:i a ex:A .
  << <<ExI, RDF_type, ExA>> >>,
  \* ex:S a sh:NodeShape .
  << <<ExS, RDF_type, SH_NodeShape>> >>,
  \* ex:S sh:in ( "a b" ex:A ) .
  << <<ExS, SH_in, B1>>, <<B1, RDF_first, LitSp>>, <<B1, RDF_rest, B2>>,
     <<B2, RDF_first, ExA>>, <<B2, RDF_rest, RDF_nil>> >>,
  \* _:bp sh:in ( "a_b" ) .
  << <<Bp, SH_in, B3>>, <<B3, RDF_first, LitUs>>, <<B3, RDF_rest, RDF_nil>> >>,
  \* ex:S sh:property _:bp .
  << <<ExS, SH_property, Bp>> >>,
  \* ex:i ex:p "a-b", "a_b" .
  << <<ExI, EX_p, LitHy>>, <<ExI, EX_p, LitUs>> >>,
  \* ex:S rdfs:subClassOf ex:A .
  << <<ExS, RDFS_subClassOf, ExA>> >>,
  \* ex:A rdfs:subClassOf owl:Thing .
  << <<ExA, RDFS_subClassOf, OWL_Thing>> >>,
  \* owl:Thing sh:in ( "a-b" ) .
  << <<OWL_Thing, SH_in, B4>>, <<B4, RDF_first, LitHy>>, <<B4, RDF_rest, RDF_nil>> >>,
  \* ex:S sh:or ( owl:Thing ) .
  << <<ExS, SH_or, B5>>, <<B5, RDF_first, OWL_Thing>>, <<B5, RDF_rest, RDF_nil>> >>,
  \* obo:BFO_3 rdfs:label "x y" .
  << <<BFO_3, RDFS_label, LitXY>> >>,
  \* obo:BFO_3 rdfs:label "de"@de .
  << <<BFO_3, RDFS_label, LitDe>> >>,
  \* obo:BFO_3 rdfs:label "" .
  << <<BFO_3, RDFS_label, LitEmpty>> >>,
  \* ex:i obo:BFO_3 ex:A .
  << <<ExI, OBO_BFO_3, ExA>> >>,
  \* obo:BFO_3 rdfs:subClassOf obo:BFO_2 .
  << <<BFO_3, RDFS_subClassOf, BFO_2>> >>
>>

\* Statements of pattern documents, and the rdfs:label statements used to
\* exercise label resolution.
PatternStmts == 1..12
LabelStmts   == 13..15

RECURSIVE Concat(_)
Concat(ss) == IF ss = <<>> THEN <<>> ELSE Head(ss) \o Concat(Tail(ss))

\* The order in which `for s, p, o in g` yields the triples of a document.
MenuTriples == Concat(Menu)

GraphOf(stmts) == UNION {SeqToSet(Menu[k]) : k \in stmts}

GSeq(g) == SelectSeq(MenuTriples, LAMBDA t : t \in g)

\* ------------------------------------------------------------------------
\* _collect_schema_and_instances: classification and edge materialization
\* ------------------------------------------------------------------------

Triples(g, p) == {t \in g : t[2] = p}

CollectShapes(g) ==
  {t[1] : t \in {x \in Triples(g, RDF_type) :
      IsURIRef(x[3]) /\ x[3] \in {SH_NodeShape, SH_PropertyShape, SH_Shape}
      /\ IsURIRef(x[1])}}

CollectClasses(g) ==
  LET ty == {x \in Triples(g, RDF_type) : IsURIRef(x[3])}
      sc == {x \in Triples(g, RDFS_subClassOf) :
               ~(IsURIRef(x[3]) /\ x[3] \in IMPLICIT_TOP_CLASSES)}
  IN  {t[1] : t \in {x \in ty : x[3] \in {OWL_Class, RDFS_Class} /\ IsURIRef(x[1])}}
      \cup {t[3] : t \in {x \in ty : x[3] \notin IMPLICIT_TOP_CLASSES}}
      \cup {t[1] : t \in {x \in sc : IsURIRef(x[1])}}
      \cup {t[3] : t \in {x \in sc : IsURIRef(x[3])}}

CollectCategorical(g) ==
  UNION {
    LET r == extract_list_items(g, t[3])
    IN  IF HasItems(r) THEN {it \in SeqToSet(r.items) : IsURIRef(it)} ELSE {}
    : t \in {x \in Triples(g, SH_in) : IsBNode(x[3])}}

\* The loop body without the expansion of SHACL lists.
EdgeStep_NoExpansion(g, include_bnodes, acc, t) ==
  LET s == t[1]
      p == t[2]
      o == t[3]
  IN  IF p \in {RDF_first, RDF_rest} THEN acc
      ELSE IF p = RDF_type /\ o = OWL_Ontology THEN acc
      ELSE IF (IsURIRef(s) /\ s \in IMPLICIT_TOP_CLASSES)
              \/ (IsURIRef(o) /\ o \in IMPLICIT_TOP_CLASSES) THEN acc
      ELSE IF ~include_bnodes /\ (IsBNode(s) \/ IsBNode(o)) THEN acc
      ELSE [edges |-> Append(acc.edges, t), nodes |-> acc.nodes \cup {s, o}]

\* One pass of the loop `for s, p, o in g` over one triple; acc carries the
\* edge list and the node set built so far.
EdgeStep(g, include_bnodes, acc, t) ==
  LET s == t[1]
      p == t[2]
      o == t[3]
      r == extract_list_items(g, o)
  IN  IF p \in {RDF_first, RDF_rest} THEN acc
      ELSE IF p = RDF_type /\ o = OWL_Ontology THEN acc
      ELSE IF (IsURIRef(s) /\ s \in IMPLICIT_TOP_CLASSES)
              \/ (IsURIRef(o) /\ o \in IMPLICIT_TOP_CLASSES) THEN acc
      ELSE IF p \in SHACL_LIST_PREDICATES /\ IsBNode(o) /\ HasItems(r)
           THEN [edges |-> acc.edges \o [k \in 1..Len(r.items) |-> <<s, p, r.items[k]>>],
                 nodes |-> acc.nodes \cup {s} \cup SeqToSet(r.items)]
      ELSE IF ~include_bnodes /\ (IsBNode(s) \/ IsBNode(o)) THEN acc
      ELSE [edges |-> Append(acc.edges, t), nodes |-> acc.nodes \cup {s, o}]

RECURSIVE EdgeLoop(_, _, _, _)
EdgeLoop(g, include_bnodes, ts, acc) ==
  IF ts = <<>> THEN acc
  ELSE EdgeLoop(g, include_bnodes, Tail(ts), EdgeStep(g, include_bnodes, acc, Head(ts)))

CollectEdges(g, include_bnodes) ==
  EdgeLoop(g, include_bnodes, GSeq(g), [edges |-> <<>>, nodes |-> {}])

\* ------------------------------------------------------------------------
\* Size caps
\* ------------------------------------------------------------------------

NodeTier(n) == IF IsURIRef(n) THEN 0 ELSE IF IsBNode(n) THEN 1 ELSE 2

\* key=lambda n: (tier, str(n))
NodeKeyLess(a, b) ==
  \/ NodeTier(a) < NodeTier(b)
  \/ NodeTier(a) = NodeTier(b) /\ NodeStrLess(a, b)

RECURSIVE SortNodes(_)
SortNodes(S) ==
  IF S = {} THEN <<>>
  ELSE LET m == CHOOSE x \in S : \A y \in S : ~NodeKeyLess(y, x)
       IN  <<m>> \o SortNodes(S \ {m})

Prefix(s, n) == SubSeq(s, 1, IF Len(s) < n THEN Len(s) ELSE n)

\* Truncation that sorts by string form alone, ignoring the node tier.
RECURSIVE SortNodesByString(_)
SortNodesByString(S) ==
  IF S = {} THEN <<>>
  ELSE LET m == CHOOSE x \in S : \A y \in S : ~NodeStrLess(y, x)
       IN  <<m>> \o SortNodesByString(S \ {m})

TruncateNodes_ByString(ns, max_nodes) ==
  IF Cardinality(ns) > max_nodes
  THEN SeqToSet(Prefix(SortNodesByString(ns), max_nodes)) ELSE ns

TruncateNodes(ns, max_nodes) ==
  IF Cardinality(ns) > max_nodes THEN SeqToSet(Prefix(SortNodes(ns), max_nodes)) ELSE ns

TruncateEdges(es, max_edges) ==
  IF Len(es) > max_edges THEN Prefix(es, max_edges) ELSE es

\* ------------------------------------------------------------------------
\* Names: ontology source, namespace manager, label normalization
\* ------------------------------------------------------------------------

\* An absent string (None) and the empty string are both <<>>: every caller
\* tests them with `if x:` / `if not x:`.
None == <<>>

NsPrefix ==
  ("ex" :> <<"e", "x">>) @@ ("obo" :> <<"o", "b", "o">>) @@
  ("rdf" :> <<"r", "d", "f">>) @@ ("rdfs" :> <<"r", "d", "f", "s">>) @@
  ("owl" :> <<"o", "w", "l">>) @@ ("sh" :> <<"s", "h">>)

\* The leading run of letters of s.
RECURSIVE LetterRun(_)
LetterRun(s) ==
  IF s # <<>> /\ IsLetter(Head(s)) THEN <<Head(s)>> \o LetterRun(Tail(s)) ELSE <<>>

\* Only the OBO pattern can match an IRI of the model's namespaces:
\* ".../obo/" followed by letters and "_" gives the letters in lower case.
obo_prefix_for_iri(n) ==
  IF n.ns = "obo"
  THEN LET run == LetterRun(n.l)
       IN  IF run # <<>> /\ Len(n.l) > Len(run) /\ n.l[Len(run) + 1] = "_"
           THEN Lower(run) ELSE None
  ELSE None

\* uri_local_name(str(n)): the part after "#" or after the last "/", which
\* is the local part of the record.
uri_local_name(n) == n.l

\* g.namespace_manager.normalizeUri(n): prefix:local for a bound namespace,
\* the IRI in angle brackets otherwise.
normalizeUri(n) ==
  IF n.ns \in BoundNamespaces
  THEN [angle |-> FALSE, s |-> NsPrefix[n.ns] \o <<":">> \o n.l]
  ELSE [angle |-> TRUE, s |-> n.l]

RECURSIVE StripLeftWS(_)
StripLeftWS(s) == IF s # <<>> /\ Head(s) = " " THEN StripLeftWS(Tail(s)) ELSE s

RECURSIVE StripRightWS(_)
StripRightWS(s) ==
  IF s # <<>> /\ s[Len(s)] = " " THEN StripRightWS(SubSeq(s, 1, Len(s) - 1)) ELSE s

\* re.sub(r"\s+", "_", s)
RECURSIVE ReplaceWSRuns(_)
ReplaceWSRuns(s) ==
  IF s = <<>> THEN <<>>
  ELSE IF Head(s) = " "
       THEN <<"_">> \o ReplaceWSRuns(StripLeftWS(s))
       ELSE <<Head(s)>> \o ReplaceWSRuns(Tail(s))

IsWordOrHyphen(c) == IsAlnumUnderscore(c) \/ c = "-"

RECURSIVE DropNonWord(_)
DropNonWord(s) ==
  IF s # <<>> /\ ~IsWordOrHyphen(Head(s)) THEN DropNonWord(Tail(s)) ELSE s

\* re.sub(r"[^\w\-]+", "_", s)
RECURSIVE ReplaceNonWordRuns(_)
ReplaceNonWordRuns(s) ==
  IF s = <<>> THEN <<>>
  ELSE IF ~IsWordOrHyphen(Head(s))
       THEN <<"_">> \o ReplaceNonWordRuns(DropNonWord(s))
       ELSE <<Head(s)>> \o ReplaceNonWordRuns(Tail(s))

normalize_label(lbl) ==
  LET r == StripUnderscores(ReplaceNonWordRuns(ReplaceWSRuns(StripRightWS(StripLeftWS(lbl)))))
  IN  IF r = <<>> THEN <<"n", "o", "d", "e">> ELSE r

\* ------------------------------------------------------------------------
\* best_label: literals are records [lang, text] in list order
\* ------------------------------------------------------------------------

LangRank_Flat(l) == 0

LangRank(l) == IF Lower(l.lang) \in {<<>>, <<"e", "n">>} THEN 0 ELSE 1

ScoreLess(a, b) ==
  \/ LangRank(a) < LangRank(b)
  \/ LangRank(a) = LangRank(b) /\ Len(a.text) < Len(b.text)

\* str(sorted(literals, key=score)[0]): the sort is stable, so the first
\* literal of minimal score in list order.
best_label(literals) ==
  IF literals = <<>> THEN [none |-> TRUE, s |-> <<>>]
  ELSE LET k == CHOOSE i \in DOMAIN literals :
                  /\ \A j \in DOMAIN literals : ~ScoreLess(literals[j], literals[i])
                  /\ \A j \in 1..(i - 1) : ScoreLess(literals[i], literals[j])
       IN  [none |-> FALSE, s |-> literals[k].text]

\* `if lbl:` on an Optional[str]
Truthy(r) == ~r.none /\ r.s # <<>>

\* ------------------------------------------------------------------------
\* Label sources: local index (FullOntologyIndex) and remote cache
\* ------------------------------------------------------------------------

Lookup(f, k, default) == IF k \in DOMAIN f THEN f[k] ELSE default

\* FullOntologyIndex.label_for: self.labels.get(str(uri))
IndexLabelFor(full_ontology, n) ==
  IF n \in DOMAIN full_ontology.labels
  THEN [none |-> FALSE, s |-> full_ontology.labels[n]]
  ELSE [none |-> TRUE, s |-> <<>>]

\* FullOntologyIndex.parents_of
parents_of(full_ontology, n) == Lookup(full_ontology.parents, n, {})

\* OntologyCache.ensure_loaded succeeds for the source keys in ont.loadable.
\* OntologyCache.label_for
CacheLabelFor(ont, n) ==
  LET key == obo_prefix_for_iri(n)
  IN  IF key = None \/ key \notin ont.loadable \/ n \notin DOMAIN ont.labels
      THEN [none |-> TRUE, s |-> <<>>]
      ELSE [none |-> FALSE, s |-> ont.labels[n]]

\* Language tags of the literals of the model.
LangTag == ("" :> <<>>) @@ ("en" :> <<"e", "n">>) @@ ("EN" :> <<"E", "N">>) @@
           ("de" :> <<"d", "e">>)

\* [l for l in g.objects(node, RDFS.label) if isinstance(l, Literal)]
LabelLits(g, n) ==
  LET sq == SortNodes({o \in Objects(g, n, RDFS_label) : IsLiteral(o)})
  IN  [k \in DOMAIN sq |-> [lang |-> LangTag[sq[k].ns], text |-> sq[k].l]]

WithPrefix(prefix, core) == IF prefix # None THEN prefix \o <<":">> \o core ELSE core

\* _exact_prefix_token: the prefix bound to exactly this IRI, if any.
exact_prefix_token(tokens, n) == Lookup(tokens, n, None)

TokenLabel(prefix, token) ==
  IF prefix # None /\ ":" \notin SeqToSet(token) THEN prefix \o <<":">> \o token ELSE token

FallbackLabel(prefix, n) ==
  LET q == normalizeUri(n)
  IN  IF q.angle THEN WithPrefix(prefix, uri_local_name(n))
      ELSE IF q.s[Len(q.s)] = ":" THEN SubSeq(q.s, 1, Len(q.s) - 1)
      ELSE q.s

\* _node_label with the index consulted before the document's own labels.
node_label_IndexFirst(g, tokens, full_ontology, ont, n) ==
  IF IsLiteral(n) THEN n.l
  ELSE IF IsBNode(n) THEN <<"_", ":">> \o n.l
  ELSE
    LET prefix == obo_prefix_for_iri(n)
        token  == exact_prefix_token(tokens, n)
        lbl0   == best_label(LabelLits(g, n))
        lbl1   == IndexLabelFor(full_ontology, n)
        lbl2   == CacheLabelFor(ont, n)
    IN  IF token # None THEN TokenLabel(prefix, token)
        ELSE IF full_ontology.present /\ Truthy(lbl1)
             THEN WithPrefix(prefix, normalize_label(lbl1.s))
        ELSE IF Truthy(lbl0) THEN WithPrefix(prefix, normalize_label(lbl0.s))
        ELSE IF ont.present /\ Truthy(lbl2)
             THEN WithPrefix(prefix, normalize_label(lbl2.s))
        ELSE FallbackLabel(prefix, n)

\* _node_label
node_label(g, tokens, full_ontology, ont, n) ==
  IF IsLiteral(n) THEN n.l
  ELSE IF IsBNode(n) THEN <<"_", ":">> \o n.l
  ELSE
    LET prefix == obo_prefix_for_iri(n)
        token  == exact_prefix_token(tokens, n)
        lbl0   == best_label(LabelLits(g, n))
        lbl1   == IndexLabelFor(full_ontology, n)
        lbl2   == CacheLabelFor(ont, n)
    IN  IF token # None THEN TokenLabel(prefix, token)
        ELSE IF Truthy(lbl0) THEN WithPrefix(prefix, normalize_label(lbl0.s))
        ELSE IF full_ontology.present /\ Truthy(lbl1)
             THEN WithPrefix(prefix, normalize_label(lbl1.s))
        ELSE IF ont.present /\ Truthy(lbl2)
             THEN WithPrefix(prefix, normalize_label(lbl2.s))
        ELSE FallbackLabel(prefix, n)

\* The IRI of a predicate, as a node.
PredNode ==
  (RDF_type :> U("rdf", <<"t", "y", "p", "e">>)) @@
  (RDFS_subClassOf :> U("rdfs", <<"s", "u", "b", "C", "l", "a", "s", "s", "O", "f">>)) @@
  (RDFS_label :> U("rdfs", <<"l", "a", "b", "e", "l">>)) @@
  (SH_in :> U("sh", <<"i", "n">>)) @@
  (SH_or :> U("sh", <<"o", "r">>)) @@
  (SH_and :> U("sh", <<"a", "n", "d">>)) @@
  (SH_xone :> U("sh", <<"x", "o", "n", "e">>)) @@
  (SH_not :> U("sh", <<"n", "o", "t">>)) @@
  (SH_property :> U("sh", <<"p", "r", "o", "p", "e", "r", "t", "y">>)) @@
  (EX_p :> U("ex", <<"p">>)) @@
  (OBO_BFO_3 :> U("obo", <<"B", "F", "O", "_", "3">>))

\* _predicate_label
predicate_label(g, tokens, full_ontology, ont, pred) ==
  IF pred = RDF_type THEN <<"r", "d", "f", ":", "t", "y", "p", "e">>
  ELSE IF pred = RDFS_subClassOf
  THEN <<"r", "d", "f", "s", ":", "s", "u", "b", "C", "l", "a", "s", "s", "O", "f">>
  ELSE
    LET n      == PredNode[pred]
        prefix == obo_prefix_for_iri(n)
        lbl0   == best_label(LabelLits(g, n))
        lbl1   == IndexLabelFor(full_ontology, n)
        lbl2   == CacheLabelFor(ont, n)
        token  == exact_prefix_token(tokens, n)
    IN  IF Truthy(lbl0) THEN WithPrefix(prefix, normalize_label(lbl0.s))
        ELSE IF full_ontology.present /\ Truthy(lbl1)
             THEN WithPrefix(prefix, normalize_label(lbl1.s))
        ELSE IF ont.present /\ Truthy(lbl2)
             THEN WithPrefix(prefix, normalize_label(lbl2.s))
        ELSE IF token # None THEN TokenLabel(prefix, token)
        ELSE FallbackLabel(prefix, n)

\* _set_predicate_cache: str(p) -> label for the predicates of the edges.
set_predicate_cache(g, tokens, full_ontology, ont, edges) ==
  [pred \in {edges[k][2] : k \in DOMAIN edges} |->
     predicate_label(g, tokens, full_ontology, ont, pred)]

\* _kind_for_uri with the class test ahead of the shape test.
kind_for_uri_ClassFirst(uri, classes, shapes, categorical) ==
  IF uri \in classes THEN "Class"
  ELSE IF uri \in shapes THEN "SHACL Shape"
  ELSE IF uri \in categorical THEN "Categorical"
  ELSE "Individual"

\* _kind_for_uri
kind_for_uri(uri, classes, shapes, categorical) ==
  IF uri \in shapes THEN "SHACL Shape"
  ELSE IF uri \in classes THEN "Class"
  ELSE IF uri \in categorical THEN "Categorical"
  ELSE "Individual"

\* ------------------------------------------------------------------------
\* _assign_ids_and_metadata
\* ------------------------------------------------------------------------

\* The suffix is taken modulo this number.
SuffixModulus == 100000

\* str(n), the second component of the hashed tuple (diagram_id, str(n)).
StrKey(n) == [ns |-> IF IsURIRef(n) THEN n.ns ELSE "", l |-> n.l]

BaseId(tokens, n) ==
  IF IsLiteral(n) THEN <<"v", "a", "l", "_">> \o safe_mermaid_id(n.l)
  ELSE IF IsBNode(n) THEN <<"b", "n", "_">> \o safe_mermaid_id(n.l)
  ELSE LET token == exact_prefix_token(tokens, n)
           q     == normalizeUri(n)
           qname == IF q.angle THEN uri_local_name(n) ELSE q.s
       IN  IF token # None THEN safe_mermaid_id(token)
           ELSE safe_mermaid_id(ReplaceChar(qname, ":", "_"))

NodeKind(n, classes, shapes, categorical) ==
  IF IsLiteral(n) THEN "Literal"
  ELSE IF IsBNode(n) THEN "Constraint"
  ELSE kind_for_uri(n, classes, shapes, categorical)

\* One pass of the loop over the sorted nodes. h maps str(n) to
\* hash((diagram_id, str(n))) in the running process.
AssignStep(acc, n, label, kind, base, h) ==
  LET node_id == IF base \in acc.used_ids
                 THEN base \o <<"_">> \o Decimal(Abs(h[StrKey(n)]) % SuffixModulus)
                 ELSE base
      uri     == IF IsURIRef(n) THEN StrKey(n) ELSE [ns |-> "", l |-> <<>>]
  IN  [used_ids   |-> acc.used_ids \cup {node_id},
       node_infos |-> (n :> [node_id |-> node_id, label |-> label, kind |-> kind, uri |-> uri])
                      @@ acc.node_infos,
       node_data  |-> (node_id :> [label |-> label, type |-> kind, uri |-> uri])
                      @@ acc.node_data]

RECURSIVE AssignLoop(_, _, _, _, _, _, _, _, _, _)
AssignLoop(g, tokens, full_ontology, ont, classes, shapes, categorical, h, ns, acc) ==
  IF ns = <<>> THEN acc
  ELSE AssignLoop(g, tokens, full_ontology, ont, classes, shapes, categorical, h, Tail(ns),
         AssignStep(acc, Head(ns),
                    node_label(g, tokens, full_ontology, ont, Head(ns)),
                    NodeKind(Head(ns), classes, shapes, categorical),
                    BaseId(tokens, Head(ns)), h))

EmptyMap == [x \in {} |-> x]

assign_ids_and_metadata(g, tokens, full_ontology, ont, classes, shapes, categorical, nodes, h) ==
  AssignLoop(g, tokens, full_ontology, ont, classes, shapes, categorical, h,
             SortNodes(nodes),
             [used_ids |-> {}, node_infos |-> EmptyMap, node_data |-> EmptyMap])

\* Nodes whose identifier can depend on the hash: they share their base with
\* another node, or their base is another base followed by "_" and more.
IsStrictPrefix(a, b) == Len(a) < Len(b) /\ SubSeq(b, 1, Len(a)) = a

Colliders(tokens, nodes) ==
  {n \in nodes : \E m \in nodes \ {n} :
      \/ BaseId(tokens, m) = BaseId(tokens, n)
      \/ IsStrictPrefix(BaseId(tokens, m), BaseId(tokens, n))}

\* ------------------------------------------------------------------------
\* OntologyCache.superclasses
\* ------------------------------------------------------------------------

\* The breadth-first walk by levels: a node is expanded at its distance from
\* cls, and only while that distance is below max_depth.
\* ------------------------------------------------------------------------
\* The two renderers. A source is modelled by what it lists: the five node
\* groups in the order of their lines, the style bucket of every node id and
\* the edge lines in order. Labels are kept as they are before escaping.
\* ------------------------------------------------------------------------

\* The keys of CLASSDEF_STYLES and of GRAPHVIZ_NODE_STYLES.
CLASSDEF_STYLES ==
  {"bfo", "cat", "cls", "cob", "constraint", "iao", "ind", "lit", "obi", "pmd",
   "pmdco", "qudt", "ro", "shacl"}
GRAPHVIZ_NODE_STYLES ==
  {"bfo", "cat", "cls", "cob", "constraint", "iao", "ind", "lit", "obi", "pmd",
   "pmdco", "qudt", "ro", "shacl"}

\* The prefix tokens of the model's IRIs as bucket names.
BucketName(prefix) ==
  IF prefix = <<"b", "f", "o">> THEN "bfo"
  ELSE IF prefix = <<"i", "a", "o">> THEN "iao"
  ELSE IF prefix = <<"z", "z">> THEN "zz"
  ELSE "none"

\* _style_bucket_for_node(uri, kind)
style_bucket_for_node(n, kind) ==
  IF kind = "Literal" THEN "lit"
  ELSE IF kind = "Constraint" THEN "constraint"
  ELSE IF kind = "SHACL Shape" THEN "shacl"
  ELSE IF kind = "Categorical" THEN "cat"
  ELSE IF kind = "Individual" THEN "ind"
  ELSE IF IsURIRef(n) /\ BucketName(obo_prefix_for_iri(n)) \in CLASSDEF_STYLES
       THEN BucketName(obo_prefix_for_iri(n))
  ELSE "cls"

\* group.sort(key=lambda ni: ni.node_id): a stable sort, written as the
\* insertion of each element behind the elements that are not greater.
InsertById(sq, x) ==
  LET k == Cardinality({i \in DOMAIN sq : ~StrLess(x.node_id, sq[i].node_id)})
  IN  SubSeq(sq, 1, k) \o <<x>> \o SubSeq(sq, k + 1, Len(sq))

RECURSIVE SortById(_, _)
SortById(sq, acc) ==
  IF sq = <<>> THEN acc ELSE SortById(Tail(sq), InsertById(acc, Head(sq)))

\* The key (t[0], t[1], t[2]) of an edge line, compared as Python compares
\* tuples of strings.
EdgeKeyLess(a, b) ==
  \/ StrLess(a.sid, b.sid)
  \/ a.sid = b.sid /\ StrLess(a.plabel, b.plabel)
  \/ a.sid = b.sid /\ a.plabel = b.plabel /\ StrLess(a.oid, b.oid)

InsertEdge(sq, x) ==
  LET k == Cardinality({i \in DOMAIN sq : ~EdgeKeyLess(x, sq[i])})
  IN  SubSeq(sq, 1, k) \o <<x>> \o SubSeq(sq, k + 1, Len(sq))

RECURSIVE SortEdges(_, _)
SortEdges(sq, acc) ==
  IF sq = <<>> THEN acc ELSE SortEdges(Tail(sq), InsertEdge(acc, Head(sq)))

\* The NodeInfo values of node_infos.items() in iteration order ord.
Items(infos, ord) == [k \in DOMAIN ord |-> infos[ord[k]]]

\* _build_mermaid, lines 1220-1238: the group of a kind.
MermaidGroupOf(kind) ==
  IF kind = "Literal" THEN "lit"
  ELSE IF kind = "Constraint" THEN "constraint"
  ELSE IF kind = "SHACL Shape" THEN "shape"
  ELSE IF kind = "Class" THEN "class"
  ELSE "abox"

\* _build_mermaid, lines 1218-1238: style_bucket_by_id, a later entry for
\* the same id replacing an earlier one.
RECURSIVE MermaidBuckets(_, _, _)
MermaidBuckets(infos, ord, acc) ==
  IF ord = <<>> THEN acc
  ELSE LET n    == Head(ord)
           kind == infos[n].kind
           b    == IF kind = "Literal" THEN "lit"
                   ELSE IF kind = "Constraint" THEN "constraint"
                   ELSE IF kind = "SHACL Shape" THEN "shacl"
                   ELSE IF kind = "Class" THEN style_bucket_for_node(n, kind)
                   ELSE IF kind = "Categorical" THEN "cat"
                   ELSE "ind"
       IN  MermaidBuckets(infos, Tail(ord), (infos[n].node_id :> b) @@ acc)

\* The edge lines with the test of the source alone, a target without a
\* NodeInfo printed under the id its string would get.
RECURSIVE MermaidFiltered_SourceOnly(_, _, _)
MermaidFiltered_SourceOnly(infos, cache_, es) ==
  IF es = <<>> THEN <<>>
  ELSE LET e == Head(es)
           rest == MermaidFiltered_SourceOnly(infos, cache_, Tail(es))
       IN  IF e[1] \notin DOMAIN infos THEN rest
           ELSE <<[sid |-> infos[e[1]].node_id,
                   plabel |-> Lookup(cache_, e[2], uri_local_name(PredNode[e[2]])),
                   oid |-> IF e[3] \in DOMAIN infos THEN infos[e[3]].node_id
                           ELSE safe_mermaid_id(e[3].l),
                   is_type |-> e[2] = RDF_type]>> \o rest

\* _build_mermaid, lines 1266-1282: the edge lines.
RECURSIVE MermaidFiltered(_, _, _)
MermaidFiltered(infos, cache_, es) ==
  IF es = <<>> THEN <<>>
  ELSE LET e == Head(es)
           rest == MermaidFiltered(infos, cache_, Tail(es))
       IN  IF e[1] \notin DOMAIN infos \/ e[3] \notin DOMAIN infos THEN rest
           ELSE <<[sid |-> infos[e[1]].node_id,
                   plabel |-> Lookup(cache_, e[2], uri_local_name(PredNode[e[2]])),
                   oid |-> infos[e[3]].node_id,
                   is_type |-> e[2] = RDF_type]>> \o rest

\* _build_mermaid: ord is the iteration order of node_infos.
build_mermaid(infos, ord, es, cache_) ==
  LET items  == Items(infos, ord)
      group(name) == SortById(SelectSeq(items, LAMBDA ni : MermaidGroupOf(ni.kind) = name), <<>>)
      bucket == MermaidBuckets(infos, ord, EmptyMap)
      lines  == SortEdges(MermaidFiltered(infos, cache_, es), <<>>)
  IN  [groups |-> [TBOX |-> group("class"), SHAPES |-> group("shape"),
                   CONSTRAINTS |-> group("constraint"), ABOX |-> group("abox"),
                   LITERALS |-> group("lit")],
       \* `class <ids> <bucket>;` for every used bucket
       buckets |-> bucket,
       \* `-.->|rdf:type|` for rdf:type, `-->|label|` otherwise
       edges |-> [k \in DOMAIN lines |->
                    [sid |-> lines[k].sid,
                     label |-> IF lines[k].is_type
                               THEN <<"r", "d", "f", ":", "t", "y", "p", "e">>
                               ELSE lines[k].plabel,
                     oid |-> lines[k].oid,
                     dashed |-> lines[k].is_type]]]

\* The grouping with individuals listed among the classes.
GraphvizGroupOf_IndividualAsClass(kind) ==
  IF kind = "Literal" THEN "lit"
  ELSE IF kind = "Constraint" THEN "constraint"
  ELSE IF kind = "SHACL Shape" THEN "shape"
  ELSE IF kind \in {"Class", "Individual"} THEN "class"
  ELSE "abox"

\* _build_graphviz, lines 1325-1343: the group of a kind.
GraphvizGroupOf(kind) ==
  IF kind = "Literal" THEN "lit"
  ELSE IF kind = "Constraint" THEN "constraint"
  ELSE IF kind = "SHACL Shape" THEN "shape"
  ELSE IF kind = "Class" THEN "class"
  ELSE "abox"

\* _build_graphviz, lines 1313-1343: style_bucket_by_id.
RECURSIVE GraphvizBuckets(_, _, _)
GraphvizBuckets(infos, ord, acc) ==
  IF ord = <<>> THEN acc
  ELSE LET n    == Head(ord)
           kind == infos[n].kind
           b    == IF kind = "Literal" THEN "lit"
                   ELSE IF kind = "Constraint" THEN "constraint"
                   ELSE IF kind = "SHACL Shape" THEN "shacl"
                   ELSE IF kind = "Class" THEN style_bucket_for_node(n, kind)
                   ELSE IF kind = "Categorical" THEN "cat"
                   ELSE "ind"
       IN  GraphvizBuckets(infos, Tail(ord), (infos[n].node_id :> b) @@ acc)

\* _build_graphviz, lines 1401-1416: the edge lines.
RECURSIVE GraphvizFiltered(_, _, _)
GraphvizFiltered(infos, cache_, es) ==
  IF es = <<>> THEN <<>>
  ELSE LET e == Head(es)
           rest == GraphvizFiltered(infos, cache_, Tail(es))
       IN  IF e[1] \notin DOMAIN infos \/ e[3] \notin DOMAIN infos THEN rest
           ELSE <<[sid |-> infos[e[1]].node_id,
                   plabel |-> Lookup(cache_, e[2], uri_local_name(PredNode[e[2]])),
                   oid |-> infos[e[3]].node_id,
                   is_type |-> e[2] = RDF_type]>> \o rest

\* _build_graphviz: ord is the iteration order of node_infos.
build_graphviz(infos, ord, es, cache_) ==
  LET items  == Items(infos, ord)
      group(name) == SortById(SelectSeq(items, LAMBDA ni : GraphvizGroupOf(ni.kind) = name), <<>>)
      bucket == GraphvizBuckets(infos, ord, EmptyMap)
      lines  == SortEdges(GraphvizFiltered(infos, cache_, es), <<>>)
  IN  [groups |-> [TBOX |-> group("class"), SHAPES |-> group("shape"),
                   CONSTRAINTS |-> group("constraint"), ABOX |-> group("abox"),
                   LITERALS |-> group("lit")],
       \* emit_nodes: the style of style_bucket_by_id.get(node_id, "cls"),
       \* or that of "cls" if GRAPHVIZ_NODE_STYLES has no such key
       buckets |-> [id \in DOMAIN bucket |->
                      IF bucket[id] \in GRAPHVIZ_NODE_STYLES THEN bucket[id] ELSE "cls"],
       \* label=plabel, style=dashed for rdf:type
       edges |-> [k \in DOMAIN lines |->
                    [sid |-> lines[k].sid, label |-> lines[k].plabel,
                     oid |-> lines[k].oid, dashed |-> lines[k].is_type]]]

RECURSIVE SuperLevels(_, _, _, _, _, _)
SuperLevels(par, level, seen, depth, max_depth, acc) ==
  IF level = {} \/ depth >= max_depth THEN acc
  ELSE LET es == {<<c, p>> : c \in level, p \in UNION {Lookup(par, x, {}) : x \in level}}
           ok == {e \in es : e[2] \in Lookup(par, e[1], {})
                             /\ IsURIRef(e[2]) /\ e[2] \notin IMPLICIT_TOP_CLASSES}
           nx == {e[2] : e \in ok} \ seen
       IN  SuperLevels(par, nx, seen \cup nx, depth + 1, max_depth, acc \cup ok)

superclasses(ont, cls, max_depth) ==
  LET key == obo_prefix_for_iri(cls)
  IN  IF key = None \/ key \notin ont.loadable THEN {}
      ELSE SuperLevels(ont.parents, {cls}, {cls}, 0, max_depth, {})

\* All orders in which a finite set can be iterated.
RECURSIVE Orders(_)
Orders(S) ==
  IF S = {} THEN {<<>>}
  ELSE UNION {{<<x>> \o sq : sq \in Orders(S \ {x})} : x \in S}

\* ------------------------------------------------------------------------
\* State of one converter (RdfToDiagram) rendering one pattern file
\* ------------------------------------------------------------------------

VARIABLES
  g,              \* the parsed document
  tokens,         \* exact-prefix bindings of the document: node -> prefix
  cfg,            \* the converter's settings
  full_ontology,  \* FullOntologyIndex, present = FALSE for None
  ont,            \* OntologyCache, present = FALSE for None
  pc,             \* position in render_graph
  classes, shapes, categorical, nodes, edges,
  collected,      \* nodes and edges as they were before the size caps
  starts,         \* classes of list(classes) not yet walked
  frontier, visited, cur, pending,
  pushes,         \* every node appended to the frontier in the current walk
  node_infos, node_data,
  pred_label_cache,  \* RdfToDiagram._pred_label_cache
  run,            \* 1 for the first render of the document, 2 for a repeat
  prev,           \* node_data of the first render
  graphs,         \* OntologyCache._graphs: the source keys parsed into memory
  files,          \* the cache directory: key -> "absent", "good" or "bad"
  fetches,        \* key -> number of urlopen calls made for it
  downloads,      \* key -> number of downloads written to the cache directory
  last,           \* the latest query of the cache and what it returned
  log,            \* the nodes queried so far
  driver,         \* the batch driver that runs, and its strict flag
  ttl_files,      \* the files of a batch, in the order they are rendered
  at,             \* index of the file the batch loop is at
  diagrams,       \* the files rendered into the driver's diagrams dict
  outcome,        \* "running", "returned" or "raised"
  call,           \* the hierarchy arguments of the constructor and of the call
  orig,           \* orig_use and orig_depth of render_graph
  conv,           \* the fields of a converter that two calls share
  frames,         \* the locals of each of two render_graph calls
  store,          \* FullOntologyIndex.parents: key -> the set object it holds
  heap,           \* set objects: reference -> elements
  held,           \* the references parents_of has returned to a caller
  literals,       \* the argument of a best_label call
  chosen,         \* what the best_label call returned
  full_g,         \* the graph load_full_ontology_index parsed the files into
  loaded          \* the index load_full_ontology_index returned

vars == <<g, tokens, cfg, full_ontology, ont, pc, classes, shapes, categorical,
          nodes, edges, collected, starts, frontier, visited, cur, pending,
          pushes, node_infos, node_data, pred_label_cache, run, prev,
          graphs, files, fetches, downloads, last, log,
          driver, ttl_files, at, diagrams, outcome, call, orig,
          conv, frames, store, heap, held, literals, chosen, full_g, loaded>>

\* The state of the remote cache's download machinery.
cache == <<graphs, files, fetches, downloads, last, log>>

\* The state of a batch driver.
batch == <<driver, ttl_files, at, diagrams, outcome>>

\* The arguments of one render_graph call and the settings it saved.
override == <<call, orig>>

\* A converter used by two calls at once.
sharing == <<conv, frames>>

\* The set objects of the index and of its callers.
objects == <<store, heap, held>>

\* A best_label call and a load_full_ontology_index call.
loading == <<literals, chosen, full_g, loaded>>

\* What stands beside a render and is not written by its steps.
aside == <<cache, batch, override, sharing, objects, loading>>

\* What a render step reads and never writes.
inputs == <<g, tokens, cfg, full_ontology, ont, aside>>
walk   == <<starts, frontier, visited, cur, pending, pushes>>
output == <<node_infos, node_data, pred_label_cache>>
repeat == <<run, prev>>

\* Bounds of the model.
MaxDocStmts == 2
MaxQueries == 3
MaxFiles == 3

\* The values the hash of one key can take in a process: two of them are
\* equal modulo SuffixModulus, one is negative.
HashValues == {7, 100007, -12}

\* The hierarchy root of the model (BFO_ENTITY_IRI, the default root).
BFO_ENTITY == BFO_1

IdxChain == (ExA :> {BFO_3}) @@ (BFO_3 :> {BFO_2}) @@ (BFO_2 :> {BFO_1})
IdxCycle == (ExA :> {BFO_3}) @@ (BFO_3 :> {BFO_2, ExA}) @@ (BFO_2 :> {BFO_3, OWL_Thing})
IdxLabels == (BFO_3 :> <<"o", "b", "j", "e", "c", "t">>)

NoIndex == [present |-> FALSE, labels |-> EmptyMap, parents |-> EmptyMap]
IndexChoices ==
  {NoIndex} \cup {[present |-> TRUE, labels |-> IdxLabels, parents |-> p] : p \in {IdxChain, IdxCycle}}

RemoteParents == (BFO_3 :> {BFO_2}) @@ (BFO_2 :> {BFO_1, OWL_Thing})
RemoteLabels  == (BFO_3 :> <<"r", "e", "m", "o", "t", "e">>) @@
                 (BFO_2 :> <<"t", "h", "i", "n", "g">>)
BfoKey == <<"b", "f", "o">>

NoCache == [present |-> FALSE, loadable |-> {}, labels |-> EmptyMap, parents |-> EmptyMap]
CacheChoices ==
  {[present |-> TRUE, loadable |-> l, labels |-> RemoteLabels, parents |-> RemoteParents]
     : l \in {{BfoKey}}}

Docs == {d \in SUBSET PatternStmts : Cardinality(d) <= MaxDocStmts}

\* Arguments of RdfToDiagram(...): the depth arguments only where the
\* feature they belong to is switched on; hierarchy expansion, enrichment
\* and a small edge cap are exercised one at a time.
Arguments ==
  {[include_bnodes |-> ib, max_nodes |-> mn, max_edges |-> me,
    use_full_hierarchy |-> h[1], full_hierarchy_max_depth |-> h[2],
    enrich |-> e[1], superclass_depth |-> e[2]] :
     ib \in BOOLEAN, mn \in {3, 500}, me \in {2, 1500},
     h \in {<<FALSE, 50>>, <<TRUE, 1>>, <<TRUE, 50>>},
     e \in {<<FALSE, 0>>, <<TRUE, 2>>}}
  \ {a \in [include_bnodes : BOOLEAN, max_nodes : {3, 500},
            max_edges : {2, 1500}, use_full_hierarchy : BOOLEAN,
            full_hierarchy_max_depth : {1, 50}, enrich : BOOLEAN,
            superclass_depth : {0, 2}] :
       \/ a.use_full_hierarchy /\ a.enrich
       \/ a.max_edges = 2 /\ (a.use_full_hierarchy \/ a.enrich)}

Max(a, b) == IF a > b THEN a ELSE b

\* RdfToDiagram.__init__
NewConverter(a, index) ==
  [include_bnodes |-> a.include_bnodes,
   enrich |-> a.enrich,
   superclass_depth |-> Max(0, a.superclass_depth),
   max_nodes |-> Max(1, a.max_nodes),
   max_edges |-> Max(1, a.max_edges),
   use_full_hierarchy |-> a.use_full_hierarchy /\ index.present,
   full_hierarchy_root |-> BFO_ENTITY,
   full_hierarchy_max_depth |-> Max(1, a.full_hierarchy_max_depth)]

\* The locals of _add_full_hierarchy before it runs and after it returned.
NoWalk ==
  /\ starts = {} /\ frontier = <<>> /\ visited = {} /\ pending = {} /\ pushes = <<>>
  /\ cur = [n |-> BFO_ENTITY, depth |-> 0]

\* _add_full_hierarchy returns: its locals are gone.
ResetWalk ==
  /\ starts' = {} /\ frontier' = <<>> /\ visited' = {} /\ pending' = {} /\ pushes' = <<>>
  /\ cur' = [n |-> BFO_ENTITY, depth |-> 0]

\* The source keys with a download URL (ontology_urls), and the nodes the
\* cache is asked about: two terms of one source, a term of a second source,
\* a term of a source without URL and a term of no source.
IAO_1 == U("obo", <<"I", "A", "O", "_", "1">>)
ZZ_1  == U("obo", <<"Z", "Z", "_", "1">>)
IaoKey == <<"i", "a", "o">>
UrlKeys == {BfoKey, IaoKey}
CacheNodes == {BFO_3, BFO_2, IAO_1, ZZ_1, ExA}

NoQuery == [op |-> "none", node |-> ExA, loaded |-> FALSE, raised |-> FALSE,
            found |-> FALSE, label |-> <<>>, edges |-> {}]

\* OntologyCache.__init__ on an empty cache directory.
CacheIdle ==
  /\ graphs = {}
  /\ files = [k \in UrlKeys |-> "absent"]
  /\ fetches = [k \in UrlKeys |-> 0]
  /\ downloads = [k \in UrlKeys |-> 0]
  /\ last = NoQuery
  /\ log = <<>>

\* render_graph called with no override (both arguments None).
NoOverride ==
  /\ call = [ctor |-> FALSE, ctor_depth |-> 50, use |-> "none", depth |-> 0]
  /\ orig = [use |-> FALSE, depth |-> 1]

\* No second call shares the converter.
NoCalls ==
  /\ conv = [use_full_hierarchy |-> FALSE, full_hierarchy_max_depth |-> 1,
             pred_label_cache |-> EmptyMap, constructed |-> [use |-> FALSE, depth |-> 1]]
  /\ frames = EmptyMap

\* The set objects of the index are not followed.
NoObjects ==
  /\ store = EmptyMap
  /\ heap = EmptyMap
  /\ held = {}

\* No best_label call and no index load is followed.
NoLoading ==
  /\ literals = <<>>
  /\ chosen = [done |-> FALSE, none |-> TRUE, s |-> <<>>]
  /\ full_g = {}
  /\ loaded = [done |-> FALSE, labels |-> EmptyMap, parents |-> EmptyMap]

\* No batch is running.
BatchIdle ==
  /\ driver = [name |-> "none", strict |-> TRUE]
  /\ ttl_files = <<>>
  /\ at = 1
  /\ diagrams = {}
  /\ outcome = "returned"

InitRender ==
  /\ pc = "collect"
  /\ classes = {} /\ shapes = {} /\ categorical = {} /\ nodes = {} /\ edges = <<>>
  /\ collected = [nodes |-> {}, edges |-> <<>>]
  /\ NoWalk
  /\ node_infos = EmptyMap /\ node_data = EmptyMap
  /\ pred_label_cache = EmptyMap

Init ==
  /\ \E d \in Docs : g = GraphOf(d)
  /\ tokens = EmptyMap
  /\ full_ontology \in IndexChoices
  /\ \E a \in Arguments : cfg = NewConverter(a, full_ontology)
  /\ ont \in IF cfg.enrich THEN CacheChoices ELSE {NoCache}
  /\ InitRender
  /\ run = 1 /\ prev = EmptyMap
  /\ CacheIdle
  /\ BatchIdle
  /\ NoCalls
  /\ NoObjects
  /\ NoOverride
  /\ NoLoading

\* ------------------------------------------------------------------------
\* render_graph, step by step
\* ------------------------------------------------------------------------

\* _collect_schema_and_instances, lines 1041-1104: classification and the
\* loop over the triples.
Collect ==
  /\ pc = "collect"
  /\ LET r == CollectEdges(g, cfg.include_bnodes)
     IN  /\ nodes' = r.nodes
         /\ edges' = r.edges
         /\ collected' = [nodes |-> r.nodes, edges |-> r.edges]
  /\ classes' = CollectClasses(g)
  /\ shapes' = CollectShapes(g)
  /\ categorical' = CollectCategorical(g)
  /\ pc' = "truncate"
  /\ UNCHANGED <<inputs, walk, output, repeat>>

\* lines 1106-1113: the two size caps.
Truncate ==
  /\ pc = "truncate"
  /\ nodes' = TruncateNodes(nodes, cfg.max_nodes)
  /\ edges' = TruncateEdges(edges, cfg.max_edges)
  /\ pc' = "enrich"
  /\ UNCHANGED <<inputs, classes, shapes, categorical, collected, walk, output, repeat>>

\* lines 1115-1126: remote superclass enrichment; the set `extra` is iterated
\* in an order the program does not fix.
Enrich ==
  /\ pc = "enrich"
  /\ IF cfg.enrich /\ cfg.superclass_depth > 0 /\ ont.present
     THEN LET extra == UNION {superclasses(ont, c, cfg.superclass_depth) : c \in classes}
              kept  == {e \in extra : e[2] \notin IMPLICIT_TOP_CLASSES}
          IN  /\ \E sq \in Orders(kept) :
                   edges' = edges \o [k \in DOMAIN sq |-> <<sq[k][1], RDFS_subClassOf, sq[k][2]>>]
              /\ nodes' = nodes \cup {e[1] : e \in kept} \cup {e[2] : e \in kept}
              /\ classes' = classes \cup {e[1] : e \in kept} \cup {e[2] : e \in kept}
     ELSE UNCHANGED <<nodes, edges, classes>>
  /\ pc' = "hier"
  /\ UNCHANGED <<inputs, shapes, categorical, collected, walk, output, repeat>>

\* The guard with the request in place of the setting and of the index test.
ExpansionOn_Requested ==
  call.use = "true" \/ (call.use = "none" /\ call.ctor)

\* lines 1128 and 996: `self.use_full_hierarchy` and
\* `self.full_ontology is not None`.
ExpansionOn == cfg.use_full_hierarchy /\ full_ontology.present

\* lines 1128-1129 and 996-1004: the guard of the expansion and the snapshot
\* list(classes) the outer loop runs over.
HierBegin ==
  /\ pc = "hier"
  /\ IF ExpansionOn
     THEN starts' = classes /\ pc' = "hier_pick"
     ELSE starts' = starts /\ pc' = "assign"
  /\ UNCHANGED <<inputs, classes, shapes, categorical, nodes, edges, collected,
                 frontier, visited, cur, pending, pushes, output, repeat>>

\* lines 1004-1009: the next start of the outer loop, in set order.
HierPick ==
  /\ pc = "hier_pick"
  /\ IF starts = {}
     THEN /\ pc' = "assign"
          /\ ResetWalk
     ELSE \E start \in starts :
            /\ starts' = starts \ {start}
            /\ IF IsURIRef(start)
               THEN /\ frontier' = <<[n |-> start, depth |-> 0]>>
                    /\ visited' = {start}
                    /\ pushes' = <<start>>
                    /\ pc' = "hier_pop"
               ELSE /\ UNCHANGED <<frontier, visited, pushes>>
                    /\ pc' = "hier_pick"
            /\ UNCHANGED <<cur, pending>>
  /\ UNCHANGED <<inputs, classes, shapes, categorical, nodes, edges, collected,
                 output, repeat>>

\* The test of line 1013 with the root alone.
BranchStops_RootOnly(n, depth, root, max_depth) == n = root

\* line 1013: `if cur == root or depth >= max_depth: continue`
BranchStops(n, depth, root, max_depth) == n = root \/ depth >= max_depth

\* lines 1011-1016: pop the frontier; a node at the root or at max_depth is
\* not expanded.
HierPop ==
  /\ pc = "hier_pop"
  /\ IF frontier = <<>>
     THEN /\ pc' = "hier_pick"
          /\ UNCHANGED <<frontier, cur, pending>>
     ELSE /\ frontier' = Tail(frontier)
          /\ cur' = Head(frontier)
          /\ IF BranchStops(Head(frontier).n, Head(frontier).depth,
                            cfg.full_hierarchy_root, cfg.full_hierarchy_max_depth)
             THEN pending' = pending /\ pc' = "hier_pop"
             ELSE pending' = parents_of(full_ontology, Head(frontier).n) /\ pc' = "hier_parent"
  /\ UNCHANGED <<inputs, classes, shapes, categorical, nodes, edges, collected,
                 starts, visited, pushes, output, repeat>>

\* line 1033 without the visited-set guard.
ShouldPush_NoVisited(parent, seen, root) == parent # root

\* line 1033: a parent goes on the frontier once per walk, the root never.
ShouldPush(parent, seen, root) == parent \notin seen /\ parent # root

\* lines 1021-1023 without the membership test.
AppendTriple_Always(es, triple) == Append(es, triple)

\* lines 1021-1023 with the triple put in front of the list.
AppendTriple_Front(es, triple) ==
  IF triple \notin SeqToSet(es) THEN <<triple>> \o es ELSE es

\* lines 1020-1023: the triple is appended unless edge_set has it.
AppendTriple(es, triple) ==
  IF triple \notin SeqToSet(es) THEN Append(es, triple) ELSE es

\* lines 1016-1035: one parent of cur, in set order.
HierParent ==
  /\ pc = "hier_parent"
  /\ IF pending = {}
     THEN /\ pc' = "hier_pop"
          /\ UNCHANGED <<pending, classes, nodes, edges, frontier, visited, pushes,
                         starts, cur>>
     ELSE \E parent \in pending :
            /\ IF ~IsURIRef(parent) \/ parent \in IMPLICIT_TOP_CLASSES
               THEN /\ pc' = "hier_parent"
                    /\ pending' = pending \ {parent}
                    /\ UNCHANGED <<classes, nodes, edges, frontier, visited, pushes,
                                   starts, cur>>
               ELSE LET triple == <<cur.n, RDFS_subClassOf, parent>>
                        edges2 == AppendTriple(edges, triple)
                        nodes2 == nodes \cup {cur.n, parent}
                    IN  /\ edges' = edges2
                        /\ nodes' = nodes2
                        /\ classes' = classes \cup {parent}
                        /\ IF Cardinality(nodes2) >= cfg.max_nodes
                              \/ Len(edges2) >= cfg.max_edges
                           THEN /\ pc' = "assign"
                                /\ ResetWalk
                           ELSE /\ pc' = "hier_parent"
                                /\ UNCHANGED <<starts, cur>>
                                /\ pending' = pending \ {parent}
                                /\ IF ShouldPush(parent, visited, cfg.full_hierarchy_root)
                                   THEN /\ visited' = visited \cup {parent}
                                        /\ frontier' = Append(frontier,
                                             [n |-> parent, depth |-> cur.depth + 1])
                                        /\ pushes' = Append(pushes, parent)
                                   ELSE UNCHANGED <<frontier, visited, pushes>>
  /\ UNCHANGED <<inputs, shapes, categorical, collected, output, repeat>>

\* _assign_ids_and_metadata; h is the hash of the running process on the
\* keys that can be hashed.
Assign ==
  /\ pc = "assign"
  /\ \E h \in [{StrKey(n) : n \in Colliders(tokens, nodes)} -> HashValues] :
       LET r == assign_ids_and_metadata(g, tokens, full_ontology, ont, classes, shapes,
                                        categorical, nodes, h)
       IN  /\ node_infos' = r.node_infos
           /\ node_data' = r.node_data
  /\ pred_label_cache' = set_predicate_cache(g, tokens, full_ontology, ont, edges)
  /\ pc' = "done"
  /\ UNCHANGED <<inputs, classes, shapes, categorical, nodes, edges, collected, walk, repeat>>

Next ==
  \/ Collect
  \/ Truncate
  \/ Enrich
  \/ HierBegin
  \/ HierPick
  \/ HierPop
  \/ HierParent
  \/ Assign

Spec == Init /\ [][Next]_vars

\* ------------------------------------------------------------------------
\* The same document rendered again by another process run
\* ------------------------------------------------------------------------

\* A second run of the program on the same file with the same settings: the
\* hash seed and the iteration order of sets are those of the new process.
RenderAgain ==
  /\ pc = "done"
  /\ run = 1
  /\ run' = 2
  /\ prev' = node_data
  /\ pc' = "collect"
  /\ classes' = {} /\ shapes' = {} /\ categorical' = {} /\ nodes' = {} /\ edges' = <<>>
  /\ collected' = [nodes |-> {}, edges |-> <<>>]
  /\ node_infos' = EmptyMap /\ node_data' = EmptyMap
  /\ pred_label_cache' = EmptyMap
  /\ UNCHANGED <<inputs, walk>>

\* Default size caps, no remote enrichment.
InitDet ==
  /\ Init
  /\ cfg.max_nodes = 500
  /\ cfg.max_edges = 1500
  /\ ~cfg.enrich

NextDet ==
  \/ Collect
  \/ Truncate
  \/ Enrich
  \/ HierBegin
  \/ HierPick
  \/ HierPop
  \/ HierParent
  \/ Assign
  \/ RenderAgain

SpecDet == InitDet /\ [][NextDet]_vars

\* ------------------------------------------------------------------------
\* Documents with rdfs:label statements, prefix tokens and label sources
\* ------------------------------------------------------------------------

LabelDocs == {{2, 16} \cup d : d \in SUBSET LabelStmts}

\* `@prefix t: <.../obo/BFO_3>` and `@prefix : <.../obo/BFO_3>` style
\* declarations bind a prefix to the exact IRI of a term.
LabelTokens == {EmptyMap, (BFO_3 :> <<"t">>), (BFO_3 :> <<"a", ":", "b">>)}

LabelIndexChoices ==
  IndexChoices \cup {[present |-> TRUE, labels |-> EmptyMap, parents |-> IdxChain]}

LabelCacheChoices ==
  CacheChoices \cup
  {[present |-> TRUE, loadable |-> {}, labels |-> RemoteLabels, parents |-> RemoteParents]}

InitLabel ==
  /\ \E d \in LabelDocs : g = GraphOf(d)
  /\ tokens \in LabelTokens
  /\ full_ontology \in LabelIndexChoices
  /\ \E a \in Arguments :
       /\ a.include_bnodes /\ a.max_nodes = 500 /\ a.max_edges = 1500
       /\ cfg = NewConverter(a, full_ontology)
  /\ ont \in IF cfg.enrich THEN LabelCacheChoices ELSE {NoCache}
  /\ InitRender
  /\ run = 1 /\ prev = EmptyMap
  /\ CacheIdle
  /\ BatchIdle
  /\ NoCalls
  /\ NoObjects
  /\ NoOverride
  /\ NoLoading

SpecLabel == InitLabel /\ [][Next]_vars

\* Renders that expand the hierarchy, with nothing else switched on.
InitHier ==
  /\ Init
  /\ cfg.use_full_hierarchy
  /\ cfg.include_bnodes
  /\ ~cfg.enrich
  /\ cfg.max_edges = 1500

\* _add_full_hierarchy waits on nothing: whenever one of its steps can be
\* taken, one is taken.
Expansion == HierBegin \/ HierPick \/ HierPop \/ HierParent

FairSpec == InitHier /\ [][Next]_vars /\ WF_vars(Expansion)

\* ------------------------------------------------------------------------
\* The remote cache: queries of one OntologyCache during a process
\* ------------------------------------------------------------------------

\* What the network does when asked for a source: the request raises, or
\* it delivers bytes that parse ("good") or do not ("bad").
NetOutcomes == {"fail", "good", "bad"}

\* line 535 with the existence test dropped.
ShouldDownload_Always(key) == TRUE

\* line 535: `if not target.exists()`
ShouldDownload(key) == files[key] = "absent"

\* ensure_loaded with the two try/except blocks removed.
ensure_loaded_Unguarded(key, net) ==
  LET asked == ShouldDownload(key)
      f1 == IF asked THEN [fetches EXCEPT ![key] = @ + 1] ELSE fetches
      fl == IF asked /\ net # "fail" THEN [files EXCEPT ![key] = net] ELSE files
      d1 == IF asked /\ net # "fail" THEN [downloads EXCEPT ![key] = @ + 1] ELSE downloads
  IN  IF key \in graphs
      THEN [graphs |-> graphs, files |-> files, fetches |-> fetches,
            downloads |-> downloads, loaded |-> TRUE, raised |-> FALSE]
      ELSE IF key \notin UrlKeys
      THEN [graphs |-> graphs, files |-> files, fetches |-> fetches,
            downloads |-> downloads, loaded |-> FALSE, raised |-> FALSE]
      ELSE IF fl[key] = "good"
      THEN [graphs |-> graphs \cup {key}, files |-> fl, fetches |-> f1,
            downloads |-> d1, loaded |-> TRUE, raised |-> FALSE]
      ELSE [graphs |-> graphs, files |-> fl, fetches |-> f1,
            downloads |-> d1, loaded |-> FALSE, raised |-> TRUE]

\* OntologyCache.ensure_loaded(key); net is the network's answer if the
\* method asks. The result carries the cache's new state, whether a graph
\* was returned and whether an exception left the method.
ensure_loaded(key, net) ==
  IF key \in graphs
  THEN [graphs |-> graphs, files |-> files, fetches |-> fetches,
        downloads |-> downloads, loaded |-> TRUE, raised |-> FALSE]
  ELSE IF key \notin UrlKeys
  THEN [graphs |-> graphs, files |-> files, fetches |-> fetches,
        downloads |-> downloads, loaded |-> FALSE, raised |-> FALSE]
  ELSE LET asked == ShouldDownload(key)
           f1 == IF asked THEN [fetches EXCEPT ![key] = @ + 1] ELSE fetches
       IN  IF asked /\ net = "fail"
           THEN \* except Exception: return None
                [graphs |-> graphs, files |-> files, fetches |-> f1,
                 downloads |-> downloads, loaded |-> FALSE, raised |-> FALSE]
           ELSE LET fl == IF asked THEN [files EXCEPT ![key] = net] ELSE files
                    d1 == IF asked THEN [downloads EXCEPT ![key] = @ + 1] ELSE downloads
                IN  IF fl[key] = "good"
                    THEN [graphs |-> graphs \cup {key}, files |-> fl, fetches |-> f1,
                          downloads |-> d1, loaded |-> TRUE, raised |-> FALSE]
                    ELSE \* g.parse raises; except Exception: return None
                         [graphs |-> graphs, files |-> fl, fetches |-> f1,
                          downloads |-> d1, loaded |-> FALSE, raised |-> FALSE]

\* The cache's state after a call of ensure_loaded.
Loaded(r) ==
  /\ graphs' = r.graphs
  /\ files' = r.files
  /\ fetches' = r.fetches
  /\ downloads' = r.downloads

\* The render's variables, left alone by the cache.
render == <<g, tokens, cfg, full_ontology, ont, pc, classes, shapes, categorical,
            nodes, edges, collected, walk, output, repeat>>

\* OntologyCache.label_for(uri)
LabelFor ==
  /\ Len(log) < MaxQueries
  /\ \E n \in CacheNodes, net \in NetOutcomes :
       LET key == obo_prefix_for_iri(n)
           r   == ensure_loaded(key, net)
       IN  /\ log' = Append(log, n)
           /\ IF key = None
              THEN /\ UNCHANGED <<graphs, files, fetches, downloads>>
                   /\ last' = [NoQuery EXCEPT !.op = "label", !.node = n]
              ELSE /\ Loaded(r)
                   /\ last' = [op |-> "label", node |-> n, loaded |-> r.loaded,
                               raised |-> r.raised,
                               found |-> r.loaded /\ ~r.raised /\ n \in DOMAIN RemoteLabels,
                               label |-> IF r.loaded /\ ~r.raised /\ n \in DOMAIN RemoteLabels
                                         THEN RemoteLabels[n] ELSE <<>>,
                               edges |-> {}]
  /\ UNCHANGED <<render, batch, override, sharing, objects, loading>>

\* OntologyCache.superclasses(cls, max_depth)
Superclasses ==
  /\ Len(log) < MaxQueries
  /\ \E n \in CacheNodes, net \in NetOutcomes, max_depth \in {1, 2} :
       LET key == obo_prefix_for_iri(n)
           r   == ensure_loaded(key, net)
       IN  /\ log' = Append(log, n)
           /\ IF key = None
              THEN /\ UNCHANGED <<graphs, files, fetches, downloads>>
                   /\ last' = [NoQuery EXCEPT !.op = "super", !.node = n]
              ELSE /\ Loaded(r)
                   /\ last' = [op |-> "super", node |-> n, loaded |-> r.loaded,
                               raised |-> r.raised, found |-> FALSE, label |-> <<>>,
                               edges |-> IF r.loaded /\ ~r.raised
                                         THEN SuperLevels(RemoteParents, {n}, {n}, 0,
                                                          max_depth, {})
                                         ELSE {}]
  /\ UNCHANGED <<render, batch, override, sharing, objects, loading>>

\* A converter with enrichment on and nothing rendering; the cache
\* directory may hold files of an earlier process.
InitCache ==
  /\ g = {}
  /\ tokens = EmptyMap
  /\ full_ontology \in {NoIndex, [present |-> TRUE, labels |-> IdxLabels, parents |-> IdxChain]}
  /\ cfg = NewConverter([include_bnodes |-> TRUE, max_nodes |-> 500, max_edges |-> 1500,
                         use_full_hierarchy |-> FALSE, full_hierarchy_max_depth |-> 50,
                         enrich |-> TRUE, superclass_depth |-> 2], NoIndex)
  /\ ont = [present |-> TRUE, loadable |-> {}, labels |-> RemoteLabels,
            parents |-> RemoteParents]
  /\ InitRender
  /\ run = 1 /\ prev = EmptyMap
  /\ graphs = {}
  /\ files \in [UrlKeys -> {"absent", "good", "bad"}]
  /\ fetches = [k \in UrlKeys |-> 0]
  /\ downloads = [k \in UrlKeys |-> 0]
  /\ last = NoQuery
  /\ log = <<>>
  /\ BatchIdle
  /\ NoCalls
  /\ NoObjects
  /\ NoOverride
  /\ NoLoading

NextCache ==
  \/ LabelFor
  \/ Superclasses

SpecCache == InitCache /\ [][NextCache]_vars

\* ------------------------------------------------------------------------
\* render_graph with per-call hierarchy overrides
\* ------------------------------------------------------------------------

\* Hierarchy expansion was asked for: by the call if it says so, else by the
\* constructor.
Requested == call.use = "true" \/ (call.use = "none" /\ call.ctor)

\* lines 1439-1445: save the settings, then apply the overrides.
Begin ==
  /\ pc = "begin"
  /\ orig' = [use |-> cfg.use_full_hierarchy, depth |-> cfg.full_hierarchy_max_depth]
  /\ cfg' = [cfg EXCEPT
               !.use_full_hierarchy =
                  IF call.use = "none" THEN @
                  ELSE call.use = "true" /\ full_ontology.present,
               !.full_hierarchy_max_depth =
                  IF call.depth = 0 THEN @ ELSE Max(1, call.depth)]
  /\ pc' = "collect"
  /\ UNCHANGED <<g, tokens, full_ontology, ont, classes, shapes, categorical, nodes,
                 edges, collected, walk, output, repeat, cache, batch, call, sharing, objects, loading>>

\* The finally block with the depth alone restored.
RestoreSettings_DepthOnly(c, o) == [c EXCEPT !.full_hierarchy_max_depth = o.depth]

\* lines 1462-1463: the assignments of the finally block.
RestoreSettings(c, o) ==
  [c EXCEPT !.use_full_hierarchy = o.use, !.full_hierarchy_max_depth = o.depth]

\* lines 1447-1448 and 1461-1463: parse_turtle_safely raises on the file;
\* the finally block runs and the exception leaves render_graph.
ParseFails ==
  /\ pc = "collect"
  /\ cfg' = RestoreSettings(cfg, orig)
  /\ pc' = "raised"
  /\ UNCHANGED <<g, tokens, full_ontology, ont, classes, shapes, categorical, nodes,
                 edges, collected, walk, output, repeat, cache, batch, override, sharing,
                 objects, loading>>

\* lines 1459-1463: the result is returned through the finally block.
Return ==
  /\ pc = "done"
  /\ cfg' = RestoreSettings(cfg, orig)
  /\ pc' = "returned"
  /\ UNCHANGED <<g, tokens, full_ontology, ont, classes, shapes, categorical, nodes,
                 edges, collected, walk, output, repeat, cache, batch, override, sharing,
                 objects, loading>>

\* One call of render_graph on a converter built with the default size
\* caps and without enrichment.
InitOverride ==
  /\ \E d \in Docs : g = GraphOf(d)
  /\ tokens = EmptyMap
  /\ full_ontology \in IndexChoices
  /\ \E a \in Arguments, u \in {"none", "true", "false"}, dep \in {0, 1} :
       /\ a.include_bnodes /\ a.max_nodes = 500 /\ a.max_edges = 1500 /\ ~a.enrich
       /\ cfg = NewConverter(a, full_ontology)
       /\ call = [ctor |-> a.use_full_hierarchy,
                   ctor_depth |-> a.full_hierarchy_max_depth, use |-> u, depth |-> dep]
  /\ orig = [use |-> FALSE, depth |-> 1]
  /\ ont = NoCache
  /\ classes = {} /\ shapes = {} /\ categorical = {} /\ nodes = {} /\ edges = <<>>
  /\ collected = [nodes |-> {}, edges |-> <<>>]
  /\ NoWalk
  /\ node_infos = EmptyMap /\ node_data = EmptyMap
  /\ pred_label_cache = EmptyMap
  /\ pc = "begin"
  /\ run = 1 /\ prev = EmptyMap
  /\ CacheIdle
  /\ BatchIdle
  /\ NoCalls
  /\ NoObjects
  /\ NoLoading

NextOverride ==
  \/ Begin
  \/ ParseFails
  \/ Collect
  \/ Truncate
  \/ Enrich
  \/ HierBegin
  \/ HierPick
  \/ HierPop
  \/ HierParent
  \/ Assign
  \/ Return

SpecOverride == InitOverride /\ [][NextOverride]_vars

\* ------------------------------------------------------------------------
\* Batches: main over a directory, _resolve_diagram_sources over refs
\* ------------------------------------------------------------------------

\* A file of a batch: whether parse_turtle_safely accepts it, and whether the
\* ref names a remote URL (build_all only).
BatchFiles == [good : BOOLEAN, remote : BOOLEAN]

RECURSIVE SeqsUpTo(_, _)
SeqsUpTo(S, n) ==
  IF n = 0 THEN {<<>>}
  ELSE LET shorter == SeqsUpTo(S, n - 1)
       IN  shorter \cup {Append(sq, x) : sq \in {t \in shorter : Len(t) = n - 1}, x \in S}

Drivers == {[name |-> "main", strict |-> TRUE],
            [name |-> "build_all", strict |-> TRUE],
            [name |-> "build_all", strict |-> FALSE]}

\* The render and the cache are idle while the batch loop is observed.
InitBatch ==
  /\ g = {}
  /\ tokens = EmptyMap
  /\ full_ontology = NoIndex
  /\ cfg = NewConverter([include_bnodes |-> TRUE, max_nodes |-> 500, max_edges |-> 1500,
                         use_full_hierarchy |-> FALSE, full_hierarchy_max_depth |-> 50,
                         enrich |-> FALSE, superclass_depth |-> 0], NoIndex)
  /\ ont = NoCache
  /\ InitRender
  /\ run = 1 /\ prev = EmptyMap
  /\ CacheIdle
  /\ NoCalls
  /\ NoObjects
  /\ NoOverride
  /\ NoLoading
  /\ driver \in Drivers
  /\ ttl_files \in {sq \in SeqsUpTo(BatchFiles, MaxFiles) :
                      /\ Len(sq) >= 1
                      /\ driver.name = "main" => \A k \in DOMAIN sq : ~sq[k].remote}
  /\ at = 1
  /\ diagrams = {}
  /\ outcome = "running"

\* main, lines 1691-1697 (and 1675-1678): `for f in ttl_files:
\* res = gen.render_graph(f)`; an exception of render_graph leaves the loop
\* and main.
MainStep ==
  /\ driver.name = "main"
  /\ outcome = "running"
  /\ at <= Len(ttl_files)
  /\ IF ttl_files[at].good
     THEN diagrams' = diagrams \cup {at} /\ at' = at + 1 /\ outcome' = outcome
     ELSE outcome' = "raised" /\ UNCHANGED <<diagrams, at>>
  /\ UNCHANGED <<driver, ttl_files, render, cache, override, sharing, objects, loading>>

\* _resolve_diagram_sources, build_all.py lines 7835-7902: a remote ref is
\* rendered inside try/except, which re-raises when strict; a local ref is
\* rendered with no handler.
ResolveStep ==
  /\ driver.name = "build_all"
  /\ outcome = "running"
  /\ at <= Len(ttl_files)
  /\ IF ttl_files[at].good
     THEN diagrams' = diagrams \cup {at} /\ at' = at + 1 /\ outcome' = outcome
     ELSE IF ttl_files[at].remote /\ ~driver.strict
     THEN at' = at + 1 /\ UNCHANGED <<diagrams, outcome>>
     ELSE outcome' = "raised" /\ UNCHANGED <<diagrams, at>>
  /\ UNCHANGED <<driver, ttl_files, render, cache, override, sharing, objects, loading>>

\* The loop is over: the driver writes its output and returns.
BatchReturn ==
  /\ outcome = "running"
  /\ at > Len(ttl_files)
  /\ outcome' = "returned"
  /\ UNCHANGED <<driver, ttl_files, at, diagrams, render, cache, override, sharing, objects, loading>>

NextBatch ==
  \/ MainStep
  \/ ResolveStep
  \/ BatchReturn

SpecBatch == InitBatch /\ [][NextBatch]_vars

\* ------------------------------------------------------------------------
\* Two render_graph calls on one converter
\* ------------------------------------------------------------------------

\* The two calls.
Callers == {1, 2}

\* A pattern file as far as its edge labels go: its one predicate and the
\* label _predicate_label computes for it from the file.
SharedFiles ==
  {[pred |-> "ex:p", plabel |-> <<"h", "a", "s">>],
   [pred |-> OBO_BFO_3, plabel |-> <<"b", "f", "o", ":", "o", "f">>]}

\* The arguments of a call: use_full_hierarchy ("none" for None, "true",
\* "false"), full_hierarchy_max_depth (0 for None) and the file.
CallArgs == [use : {"none", "true", "false"}, depth : {0, 2}, file : SharedFiles]

NewFrame(a) ==
  [pc |-> "save", args |-> a, orig_use |-> FALSE, orig_depth |-> 1,
   hier |-> FALSE, max_depth |-> 0, plabel |-> <<>>]

\* What a call returns: whether the hierarchy was expanded and to which
\* depth, and the label printed on the file's edges.
ResultOf(f) == [hier |-> f.hier, max_depth |-> f.max_depth, plabel |-> f.plabel]

\* The result of the call when no other call runs on the converter.
Alone(a) ==
  LET use   == IF a.use = "none" THEN conv.constructed.use
               ELSE a.use = "true" /\ full_ontology.present
      depth == IF a.depth = 0 THEN conv.constructed.depth ELSE Max(1, a.depth)
  IN  [hier |-> use, max_depth |-> IF use THEN depth ELSE 0, plabel |-> a.file.plabel]

\* lines 1439-1440: orig_use and orig_depth.
Save(t) ==
  /\ frames[t].pc = "save"
  /\ frames' = [frames EXCEPT ![t].orig_use = conv.use_full_hierarchy,
                              ![t].orig_depth = conv.full_hierarchy_max_depth,
                              ![t].pc = "override"]
  /\ UNCHANGED <<conv, render, cache, batch, override, objects, loading>>

\* lines 1442-1445: the overrides are written into the converter.
Override(t) ==
  /\ frames[t].pc = "override"
  /\ conv' = [conv EXCEPT
                !.use_full_hierarchy =
                   IF frames[t].args.use = "none" THEN @
                   ELSE frames[t].args.use = "true" /\ full_ontology.present,
                !.full_hierarchy_max_depth =
                   IF frames[t].args.depth = 0 THEN @ ELSE Max(1, frames[t].args.depth)]
  /\ frames' = [frames EXCEPT ![t].pc = "guard"]
  /\ UNCHANGED <<render, cache, batch, override, objects, loading>>

\* _add_full_hierarchy, line 996: the guard reads the converter's setting.
Guard(t) ==
  /\ frames[t].pc = "guard"
  /\ LET on == conv.use_full_hierarchy /\ full_ontology.present
     IN  frames' = [frames EXCEPT ![t].hier = on,
                                  ![t].pc = IF on THEN "depth" ELSE "cache"]
  /\ UNCHANGED <<conv, render, cache, batch, override, objects, loading>>

\* _add_full_hierarchy, line 1000: max_depth = self.full_hierarchy_max_depth.
ReadDepth(t) ==
  /\ frames[t].pc = "depth"
  /\ frames' = [frames EXCEPT ![t].max_depth = conv.full_hierarchy_max_depth,
                              ![t].pc = "cache"]
  /\ UNCHANGED <<conv, render, cache, batch, override, objects, loading>>

\* _set_predicate_cache, lines 1199-1204: the converter's cache is replaced
\* by the labels of this call's edges.
SetCache(t) ==
  /\ frames[t].pc = "cache"
  /\ conv' = [conv EXCEPT !.pred_label_cache =
                             (frames[t].args.file.pred :> frames[t].args.file.plabel)]
  /\ frames' = [frames EXCEPT ![t].pc = "build"]
  /\ UNCHANGED <<render, cache, batch, override, objects, loading>>

\* _build_mermaid line 1272, _build_graphviz line 1407: the label of an edge
\* is read from the converter's cache, the local name if it is not there.
Build(t) ==
  /\ frames[t].pc = "build"
  /\ frames' = [frames EXCEPT
                  ![t].plabel = Lookup(conv.pred_label_cache, frames[t].args.file.pred,
                                       uri_local_name(PredNode[frames[t].args.file.pred])),
                  ![t].pc = "finally"]
  /\ UNCHANGED <<conv, render, cache, batch, override, objects, loading>>

\* lines 1462-1464: the finally block.
Finally(t) ==
  /\ frames[t].pc = "finally"
  /\ conv' = [conv EXCEPT !.use_full_hierarchy = frames[t].orig_use,
                          !.full_hierarchy_max_depth = frames[t].orig_depth]
  /\ frames' = [frames EXCEPT ![t].pc = "returned"]
  /\ UNCHANGED <<render, cache, batch, override, objects, loading>>

\* A converter and two calls about to start.
InitShared ==
  /\ g = {}
  /\ tokens = EmptyMap
  /\ full_ontology \in {NoIndex, [present |-> TRUE, labels |-> IdxLabels, parents |-> IdxChain]}
  /\ \E a \in Arguments :
       /\ a.include_bnodes /\ a.max_nodes = 500 /\ a.max_edges = 1500 /\ ~a.enrich
       /\ cfg = NewConverter(a, full_ontology)
  /\ conv = [use_full_hierarchy |-> cfg.use_full_hierarchy,
             full_hierarchy_max_depth |-> cfg.full_hierarchy_max_depth,
             pred_label_cache |-> EmptyMap,
             constructed |-> [use |-> cfg.use_full_hierarchy,
                              depth |-> cfg.full_hierarchy_max_depth]]
  /\ frames \in [Callers -> {NewFrame(a) : a \in CallArgs}]
  /\ ont = NoCache
  /\ InitRender
  /\ run = 1 /\ prev = EmptyMap
  /\ CacheIdle
  /\ BatchIdle
  /\ NoObjects
  /\ NoOverride
  /\ NoLoading

NextShared ==
  \/ \E t \in Callers : Save(t)
  \/ \E t \in Callers : Override(t)
  \/ \E t \in Callers : Guard(t)
  \/ \E t \in Callers : ReadDepth(t)
  \/ \E t \in Callers : SetCache(t)
  \/ \E t \in Callers : Build(t)
  \/ \E t \in Callers : Finally(t)

SpecShared == InitShared /\ [][NextShared]_vars

\* ------------------------------------------------------------------------
\* Hierarchy expansion with both caps, enrichment and a chosen root
\* ------------------------------------------------------------------------

\* Documents of the statements about ex:A and obo:BFO_3 as classes.
ExpandDocs == SUBSET {1, 2, 3, 17}

\* Constructor arguments with every combination of the two caps, of the
\* expansion depth and of remote enrichment.
ExpandArguments ==
  {[include_bnodes |-> TRUE, max_nodes |-> mn, max_edges |-> me,
    use_full_hierarchy |-> h[1], full_hierarchy_max_depth |-> h[2],
    enrich |-> e[1], superclass_depth |-> e[2]] :
     mn \in {3, 500}, me \in {2, 1500},
     h \in {<<FALSE, 50>>, <<TRUE, 1>>, <<TRUE, 2>>, <<TRUE, 50>>},
     e \in {<<FALSE, 0>>, <<TRUE, 2>>}}

\* One render by a converter built with a full_hierarchy_root argument.
InitExpand ==
  /\ \E d \in ExpandDocs : g = GraphOf(d)
  /\ tokens = EmptyMap
  /\ full_ontology \in IndexChoices
  /\ \E a \in ExpandArguments, root \in {BFO_1, BFO_2} :
       cfg = [NewConverter(a, full_ontology) EXCEPT !.full_hierarchy_root = root]
  /\ ont \in IF cfg.enrich THEN CacheChoices ELSE {NoCache}
  /\ InitRender
  /\ run = 1 /\ prev = EmptyMap
  /\ CacheIdle
  /\ BatchIdle
  /\ NoCalls
  /\ NoObjects
  /\ NoOverride
  /\ NoLoading

SpecExpand == InitExpand /\ [][Next]_vars

\* ------------------------------------------------------------------------
\* The index and the set objects behind it
\* ------------------------------------------------------------------------

\* The sets a caller may hold at once.
MaxHeld == 1

\* The keys a caller asks about: a key of the index and one it lacks.
AskedKeys == {BFO_3, BFO_1}

\* FullOntologyIndex.parents as objects: the keys in some order, key -> the
\* reference of its set, and the sets by reference.
KeyOrder(parents) == SortNodes(DOMAIN parents)
StoreOf(parents) ==
  [k \in DOMAIN parents |-> CHOOSE r \in 1..Len(KeyOrder(parents)) : KeyOrder(parents)[r] = k]
HeapOf(parents) == [r \in 1..Len(KeyOrder(parents)) |-> parents[KeyOrder(parents)[r]]]

\* The parents map as a reader of the index sees it.
IndexParents(st, hp) == [k \in DOMAIN st |-> hp[st[k]]]

\* parents_of returning the set the index holds.
AllocParents_Stored(st, hp, uri) ==
  IF uri \in DOMAIN st
  THEN [heap |-> hp, ref |-> st[uri]]
  ELSE [heap |-> Append(hp, {}), ref |-> Len(hp) + 1]

\* FullOntologyIndex.parents_of: the set comprehension builds a new set from
\* the stored one, or from an empty set for a key the index lacks.
AllocParents(st, hp, uri) ==
  [heap |-> Append(hp, IF uri \in DOMAIN st THEN hp[st[uri]] ELSE {}),
   ref  |-> Len(hp) + 1]

\* Between two renders a caller asks the index for the parents of a class.
ParentsOfCall ==
  /\ pc = "done"
  /\ run = 1
  /\ Cardinality(held) < MaxHeld
  /\ \E uri \in AskedKeys :
       LET r == AllocParents(store, heap, uri)
       IN  /\ heap' = r.heap
           /\ held' = held \cup {[ref |-> r.ref, key |-> uri]}
  /\ UNCHANGED <<store, render, cache, batch, override, sharing, loading>>

\* The caller changes a set it was given: add or clear.
CallerMutate ==
  /\ pc = "done"
  /\ run = 1
  /\ \E h \in held :
       \E new \in {heap[h.ref] \cup {ExA}, {}} :
         /\ new # heap[h.ref]
         /\ heap' = [heap EXCEPT ![h.ref] = new]
  /\ UNCHANGED <<store, held, render, cache, batch, override, sharing, loading>>

\* Documents of the statements that declare, subclass and instantiate ex:A.
ClassDocs == SUBSET {1, 2, 3}

\* Two renders of a document by a converter that has an index.
InitIndex ==
  /\ \E d \in ClassDocs : g = GraphOf(d)
  /\ tokens = EmptyMap
  /\ full_ontology \in IndexChoices
  /\ full_ontology.present
  /\ \E a \in Arguments :
       /\ a.include_bnodes /\ a.max_nodes = 500 /\ a.max_edges = 1500 /\ ~a.enrich
       /\ cfg = NewConverter(a, full_ontology)
  /\ ont = NoCache
  /\ InitRender
  /\ run = 1 /\ prev = EmptyMap
  /\ store = StoreOf(full_ontology.parents)
  /\ heap = HeapOf(full_ontology.parents)
  /\ held = {}
  /\ CacheIdle
  /\ BatchIdle
  /\ NoCalls
  /\ NoOverride
  /\ NoLoading

NextIndex ==
  \/ Collect
  \/ Truncate
  \/ Enrich
  \/ HierBegin
  \/ HierPick
  \/ HierPop
  \/ HierParent
  \/ Assign
  \/ RenderAgain
  \/ ParentsOfCall
  \/ CallerMutate

SpecIndex == InitIndex /\ [][NextIndex]_vars

\* ------------------------------------------------------------------------
\* best_label called on a list of literals
\* ------------------------------------------------------------------------

\* No document is rendered.
NoRender ==
  /\ g = {}
  /\ tokens = EmptyMap
  /\ full_ontology = NoIndex
  /\ cfg = NewConverter([include_bnodes |-> TRUE, max_nodes |-> 500, max_edges |-> 1500,
                         use_full_hierarchy |-> FALSE, full_hierarchy_max_depth |-> 50,
                         enrich |-> FALSE, superclass_depth |-> 0], NoIndex)
  /\ ont = NoCache
  /\ InitRender
  /\ run = 1 /\ prev = EmptyMap

MaxLits == 3

\* Language tags and texts of the literals handed to best_label.
Languages == {<<>>, <<"e", "n">>, <<"E", "N">>, <<"d", "e">>}
Texts     == {<<>>, <<"a">>, <<"a", "b">>}
LiteralPool == [lang : Languages, text : Texts]
LiteralLists == UNION {[1..n -> LiteralPool] : n \in 0..MaxLits}

\* best_label(literals)
BestLabel ==
  /\ ~chosen.done
  /\ LET r == best_label(literals)
     IN  chosen' = [done |-> TRUE, none |-> r.none, s |-> r.s]
  /\ UNCHANGED <<literals, full_g, loaded, render, cache, batch, override, sharing, objects>>

InitBest ==
  /\ NoRender
  /\ literals \in LiteralLists
  /\ chosen = [done |-> FALSE, none |-> TRUE, s |-> <<>>]
  /\ full_g = {}
  /\ loaded = [done |-> FALSE, labels |-> EmptyMap, parents |-> EmptyMap]
  /\ CacheIdle
  /\ BatchIdle
  /\ NoCalls
  /\ NoObjects
  /\ NoOverride

NextBest == BestLabel

SpecBest == InitBest /\ [][NextBest]_vars

\* ------------------------------------------------------------------------
\* load_full_ontology_index on the files of a full ontology
\* ------------------------------------------------------------------------

OWL_intersectionOf  == "owl:intersectionOf"
OWL_unionOf         == "owl:unionOf"
OWL_equivalentClass == "owl:equivalentClass"
OWL_Restriction == U("owl", <<"R", "e", "s", "t", "r", "i", "c", "t", "i", "o", "n">>)

R1 == BN(<<"r", "1">>)
R2 == BN(<<"r", "2">>)
R3 == BN(<<"r", "3">>)
R4 == BN(<<"r", "4">>)
E1 == BN(<<"e", "1">>)
X1 == BN(<<"x", "1">>)
L1 == BN(<<"l", "1">>)
L2 == BN(<<"l", "2">>)
L3 == BN(<<"l", "3">>)
L4 == BN(<<"l", "4">>)

\* Each entry is the triple sequence one Turtle statement of a full
\* ontology file parses to.
FullMenu == <<
  \* obo:BFO_3 rdfs:subClassOf obo:BFO_2 .
  << <<BFO_3, RDFS_subClassOf, BFO_2>> >>,
  \* obo:BFO_3 rdfs:subClassOf
  \*   [ owl:intersectionOf ( obo:BFO_1 [ a owl:Restriction ] ) ] .
  << <<BFO_3, RDFS_subClassOf, R1>>, <<R1, OWL_intersectionOf, L1>>,
     <<L1, RDF_first, BFO_1>>, <<L1, RDF_rest, L2>>,
     <<L2, RDF_first, R2>>, <<L2, RDF_rest, RDF_nil>>,
     <<R2, RDF_type, OWL_Restriction>> >>,
  \* ex:A owl:equivalentClass [ owl:unionOf ( obo:BFO_3 ex:S ) ] .
  << <<ExA, OWL_equivalentClass, E1>>, <<E1, OWL_unionOf, L3>>,
     <<L3, RDF_first, BFO_3>>, <<L3, RDF_rest, L4>>,
     <<L4, RDF_first, ExS>>, <<L4, RDF_rest, RDF_nil>> >>,
  \* [] rdfs:subClassOf obo:BFO_2 .
  << <<X1, RDFS_subClassOf, BFO_2>> >>,
  \* ex:A rdfs:subClassOf [ a owl:Restriction ] .
  << <<ExA, RDFS_subClassOf, R3>>, <<R3, RDF_type, OWL_Restriction>> >>,
  \* ex:A owl:equivalentClass obo:BFO_2 .
  << <<ExA, OWL_equivalentClass, BFO_2>> >>,
  \* ex:S rdfs:subClassOf [ owl:unionOf obo:BFO_1 ] .
  << <<ExS, RDFS_subClassOf, R4>>, <<R4, OWL_unionOf, BFO_1>> >>,
  \* obo:BFO_3 rdfs:label "x y" .
  << <<BFO_3, RDFS_label, LitXY>> >>,
  \* obo:BFO_3 rdfs:label "de"@de .
  << <<BFO_3, RDFS_label, LitDe>> >>
>>

FullGraphOf(stmts) == UNION {SeqToSet(FullMenu[k]) : k \in stmts}

FullDocs == SUBSET (1..Len(FullMenu))

\* parents.setdefault(str(child), set()).add(str(parent))
AddParent(parents, child, parent) ==
  IF child \in DOMAIN parents
  THEN [parents EXCEPT ![child] = @ \cup {parent}]
  ELSE parents @@ (child :> {parent})

\* Graph.items(head) behind Collection.__iter__: the rdf:first of each cell
\* along rdf:rest, up to the end of the list or to the cell at which a list
\* that runs back into itself raises.
RECURSIVE CollectionItems(_, _, _, _)
CollectionItems(graph, cell, chain, acc) ==
  LET firsts == Objects(graph, cell, RDF_first)
      rests  == Objects(graph, cell, RDF_rest)
      acc2   == IF firsts = {} THEN acc ELSE Append(acc, CHOOSE x \in firsts : TRUE)
  IN  IF rests = {} THEN acc2
      ELSE LET nxt == CHOOSE x \in rests : TRUE
           IN  IF nxt \in chain THEN acc2
               ELSE CollectionItems(graph, nxt, chain \cup {nxt}, acc2)

IsParentItem_Any(item) == TRUE

\* `if isinstance(item, URIRef)`
IsParentItem(item) == IsURIRef(item)

RECURSIVE AddItems(_, _, _)
AddItems(parents, child, items) ==
  IF items = <<>> THEN parents
  ELSE AddItems(IF IsParentItem(Head(items))
                THEN AddParent(parents, child, Head(items)) ELSE parents,
                child, Tail(items))

\* The list heads of one bnode: owl:intersectionOf first, then owl:unionOf.
RECURSIVE AddLists(_, _, _, _)
AddLists(graph, parents, child, heads) ==
  IF heads = {} THEN parents
  ELSE LET h == CHOOSE x \in heads : TRUE
       IN  AddLists(graph,
                    IF IsBNode(h)
                    THEN AddItems(parents, child, CollectionItems(graph, h, {h}, <<>>))
                    ELSE parents,
                    child, heads \ {h})

\* _extract_named_parents_from_bnode(g, child, bnode, parents)
extract_named_parents_from_bnode(graph, child, bnode, parents) ==
  AddLists(graph,
           AddLists(graph, parents, child, Objects(graph, bnode, OWL_intersectionOf)),
           child, Objects(graph, bnode, OWL_unionOf))

\* The loop over g.triples((None, RDFS.subClassOf, None))
RECURSIVE SubClassOfLoop(_, _, _)
SubClassOfLoop(graph, todo, parents) ==
  IF todo = {} THEN parents
  ELSE LET t == CHOOSE x \in todo : TRUE
           p2 == IF IsURIRef(t[1]) /\ IsURIRef(t[3]) THEN AddParent(parents, t[1], t[3])
                 ELSE IF IsURIRef(t[1]) /\ IsBNode(t[3])
                      THEN extract_named_parents_from_bnode(graph, t[1], t[3], parents)
                      ELSE parents
       IN  SubClassOfLoop(graph, todo \ {t}, p2)

\* The loop over g.triples((None, OWL.equivalentClass, None))
RECURSIVE EquivalentClassLoop(_, _, _)
EquivalentClassLoop(graph, todo, parents) ==
  IF todo = {} THEN parents
  ELSE LET t == CHOOSE x \in todo : TRUE
           p2 == IF IsURIRef(t[1]) /\ IsBNode(t[3])
                 THEN extract_named_parents_from_bnode(graph, t[1], t[3], parents)
                 ELSE parents
       IN  EquivalentClassLoop(graph, todo \ {t}, p2)

\* tmp and labels: the best literal of every URI that has label literals,
\* kept when it is not empty.
IndexLabels(graph) ==
  LET subjects == {t[1] : t \in {x \in Triples(graph, RDFS_label) :
                                   IsURIRef(x[1]) /\ IsLiteral(x[3])}}
      kept == {n \in subjects : Truthy(best_label(LabelLits(graph, n)))}
  IN  [n \in kept |-> best_label(LabelLits(graph, n)).s]

load_full_ontology_index(graph) ==
  [labels  |-> IndexLabels(graph),
   parents |-> EquivalentClassLoop(graph, Triples(graph, OWL_equivalentClass),
                 SubClassOfLoop(graph, Triples(graph, RDFS_subClassOf), EmptyMap))]

LoadIndex ==
  /\ ~loaded.done
  /\ LET r == load_full_ontology_index(full_g)
     IN  loaded' = [done |-> TRUE, labels |-> r.labels, parents |-> r.parents]
  /\ UNCHANGED <<literals, chosen, full_g, render, cache, batch, override, sharing, objects>>

InitLoad ==
  /\ NoRender
  /\ literals = <<>>
  /\ chosen = [done |-> FALSE, none |-> TRUE, s |-> <<>>]
  /\ \E d \in FullDocs : full_g = FullGraphOf(d)
  /\ loaded = [done |-> FALSE, labels |-> EmptyMap, parents |-> EmptyMap]
  /\ CacheIdle
  /\ BatchIdle
  /\ NoCalls
  /\ NoObjects
  /\ NoOverride

NextLoad == LoadIndex

SpecLoad == InitLoad /\ [][NextLoad]_vars

\* ------------------------------------------------------------------------
\* Properties
\* ------------------------------------------------------------------------

EdgeSet == SeqToSet(edges)

Count(x, sq) == Cardinality({k \in DOMAIN sq : sq[k] = x})

NodeIds == {node_infos[n].node_id : n \in DOMAIN node_infos}

\* C2: distinct nodes of a diagram get pairwise distinct node_id values.
C2_IdsPairwiseDistinct ==
  pc = "done" =>
    \A n \in DOMAIN node_infos : \A m \in DOMAIN node_infos :
      n # m => node_infos[n].node_id # node_infos[m].node_id

\* C4: the expansion terminates, and within one walk no node is appended to
\* the frontier more than once.
PushesDistinct == \A i \in DOMAIN pushes : \A j \in DOMAIN pushes : i # j => pushes[i] # pushes[j]

C4_HierarchyTerminates == ([]PushesDistinct) /\ ((pc = "hier") ~> (pc = "assign"))

\* A walk over the cyclic index that met an already visited parent again.
C4_Witness ==
  /\ pc = "hier_parent"
  /\ full_ontology.parents = IdxCycle
  /\ cur.n = BFO_2
  /\ BFO_3 \in visited
  /\ pending = {}
  /\ Len(pushes) >= 3

\* C5: node truncation is a no-op at or below max_nodes, and above it keeps
\* exactly the first max_nodes nodes in (tier, string) order.
C5_NodeTruncation ==
  pc = "enrich" =>
    IF Cardinality(collected.nodes) <= cfg.max_nodes
    THEN nodes = collected.nodes
    ELSE /\ Cardinality(nodes) = cfg.max_nodes
         /\ nodes \subseteq collected.nodes
         /\ \A k \in nodes : \A d \in collected.nodes \ nodes :
              /\ NodeTier(k) <= NodeTier(d)
              /\ NodeTier(k) = NodeTier(d) => NodeStrLess(k, d)
              /\ IsURIRef(d) => IsURIRef(k)

\* A truncation that kept a blank node and dropped a literal.
C5_Witness ==
  /\ pc = "enrich"
  /\ Cardinality(collected.nodes) > cfg.max_nodes
  /\ \E k \in nodes : IsBNode(k)
  /\ \E d \in collected.nodes \ nodes : IsLiteral(d)

\* The triples whose object heads a non-empty RDF list under a SHACL list
\* predicate.
ListTriples ==
  {t \in g : t[2] \in SHACL_LIST_PREDICATES /\ IsBNode(t[3])
             /\ HasItems(extract_list_items(g, t[3]))}

Expanded(t) ==
  LET items == extract_list_items(g, t[3]).items
  IN  /\ \A k \in DOMAIN items :
           Count(<<t[1], t[2], items[k]>>, collected.edges) = Count(items[k], items)
      /\ Count(t, collected.edges) = 0

NoListPlumbing ==
  \A k \in DOMAIN collected.edges : collected.edges[k][2] \notin {RDF_first, RDF_rest}

\* C6 as stated: every list triple is expanded into one edge per item, with
\* no edge to the list head and no rdf:first / rdf:rest edge.
C6_ListExpansion_AsStated ==
  pc # "collect" => (\A t \in ListTriples : Expanded(t)) /\ NoListPlumbing

\* C6: the same for every list triple whose subject is not an implicit top
\* class (owl:Thing, rdfs:Resource).
C6_ListExpansion ==
  pc # "collect" =>
    /\ \A t \in ListTriples : t[1] \notin IMPLICIT_TOP_CLASSES => Expanded(t)
    /\ NoListPlumbing

\* A two-item list was expanded.
C6_Witness ==
  /\ pc # "collect"
  /\ \E t \in ListTriples :
       /\ t[1] \notin IMPLICIT_TOP_CLASSES
       /\ Len(extract_list_items(g, t[3]).items) = 2
       /\ \A it \in SeqToSet(extract_list_items(g, t[3]).items) :
            <<t[1], t[2], it>> \in SeqToSet(collected.edges)

\* C7: every endpoint of a retained edge has a NodeInfo.
C7_EndpointsHaveNodeInfo ==
  pc = "done" =>
    \A k \in DOMAIN edges :
      edges[k][1] \in DOMAIN node_infos /\ edges[k][3] \in DOMAIN node_infos

\* C8: kind precedence: shapes over classes over categorical over Individual
\* for a URI; Literal for literals, Constraint for blank nodes.
C8_KindPrecedence ==
  pc = "done" =>
    \A n \in DOMAIN node_infos :
      node_infos[n].kind =
        CASE IsLiteral(n) -> "Literal"
          [] IsBNode(n) -> "Constraint"
          [] IsURIRef(n) /\ n \in shapes -> "SHACL Shape"
          [] IsURIRef(n) /\ n \notin shapes /\ n \in classes -> "Class"
          [] IsURIRef(n) /\ n \notin shapes /\ n \notin classes /\ n \in categorical
               -> "Categorical"
          [] OTHER -> "Individual"

\* A drawn node that is both a shape and a class.
C8_Witness ==
  /\ pc = "done"
  /\ \E n \in DOMAIN node_infos : n \in shapes /\ n \in classes

\* C9: the returned node set has at most max_nodes entries.
C9_NodeCap ==
  pc \in {"assign", "done"} => Cardinality(nodes) <= cfg.max_nodes

\* C10: with include_bnodes off, no blank node is a node or an edge endpoint.
C10_NoBlankNodes ==
  (pc \in {"assign", "done"} /\ ~cfg.include_bnodes) =>
    /\ \A n \in nodes : ~IsBNode(n)
    /\ \A k \in DOMAIN edges : ~IsBNode(edges[k][1]) /\ ~IsBNode(edges[k][3])

\* C11: owl:Thing and rdfs:Resource are never a node of the diagram and never
\* an endpoint of a retained edge.
C11_NoImplicitTop ==
  pc \in {"assign", "done"} =>
    /\ nodes \cap IMPLICIT_TOP_CLASSES = {}
    /\ \A k \in DOMAIN edges :
         edges[k][1] \notin IMPLICIT_TOP_CLASSES /\ edges[k][3] \notin IMPLICIT_TOP_CLASSES

\* C1: a second render of the same document with the same settings returns
\* the same node_data as the first.
C1_Deterministic == (pc = "done" /\ run = 2) => node_data = prev

\* The labels the document gives a node, and the sources that hold one.
LocalTexts(n) == {o.l : o \in {x \in Objects(g, n, RDFS_label) : IsLiteral(x)}}
HasToken(n)   == exact_prefix_token(tokens, n) # None
HasIndexLabel(n)  == full_ontology.present /\ n \in DOMAIN full_ontology.labels
HasRemoteLabel(n) ==
  /\ cfg.enrich /\ ont.present
  /\ obo_prefix_for_iri(n) \in ont.loadable
  /\ n \in DOMAIN ont.labels

Shown(n, text) == WithPrefix(obo_prefix_for_iri(n), normalize_label(text))

UriNodes == {n \in DOMAIN node_infos : IsURIRef(n)}

\* C3 as stated: without an exact-prefix token, a node with a local
\* rdfs:label gets a local label whatever the index and the cache hold.
C3_LocalLabelWins_AsStated ==
  pc = "done" =>
    \A n \in UriNodes :
      (~HasToken(n) /\ LocalTexts(n) # {}) =>
        node_infos[n].label \in {Shown(n, t) : t \in LocalTexts(n)}

\* The best local label: untagged or English first, then shortest.
BestLocal(n) == best_label(LabelLits(g, n))

\* C3: the label comes from the first source in the order token, local,
\* index, remote, fallback that holds one, where the document holds one only
\* if the best local label is not empty.
C3_LabelOrder ==
  pc = "done" =>
    \A n \in UriNodes :
      node_infos[n].label =
        CASE HasToken(n) -> TokenLabel(obo_prefix_for_iri(n), tokens[n])
          [] ~HasToken(n) /\ Truthy(BestLocal(n)) -> Shown(n, BestLocal(n).s)
          [] ~HasToken(n) /\ ~Truthy(BestLocal(n)) /\ HasIndexLabel(n)
               -> Shown(n, full_ontology.labels[n])
          [] ~HasToken(n) /\ ~Truthy(BestLocal(n)) /\ ~HasIndexLabel(n) /\ HasRemoteLabel(n)
               -> Shown(n, ont.labels[n])
          [] OTHER -> FallbackLabel(obo_prefix_for_iri(n), n)

\* A node with a local label, an index label and a remote label, shown with
\* the local one.
C3_Witness ==
  /\ pc = "done"
  /\ BFO_3 \in UriNodes
  /\ ~HasToken(BFO_3) /\ HasIndexLabel(BFO_3) /\ HasRemoteLabel(BFO_3)
  /\ LocalTexts(BFO_3) = {<<"x", " ", "y">>, <<"d", "e">>}
  /\ node_infos[BFO_3].label = <<"b", "f", "o", ":", "x", "_", "y">>

\* C12: during a process each source key is downloaded at most once, and
\* only while its cache file does not exist.
C12_DownloadOnce ==
  \A k \in UrlKeys :
    /\ downloads[k] <= 1
    /\ downloads[k] = 1 => files[k] # "absent"

\* Three queries about one source, the first of which downloaded it.
C12_Witness ==
  /\ log = <<BFO_3, BFO_2, BFO_3>>
  /\ downloads[BfoKey] = 1
  /\ fetches[BfoKey] = 1
  /\ BfoKey \in graphs
  /\ last.found

\* What the cache offers a render after the latest query.
CacheView == [ont EXCEPT !.loadable = graphs]

\* C13: a query whose source could not be loaded raises nothing, returns no
\* label and no edge, and the node gets the label it has without a cache.
C13_FailureNonFatal ==
  (last.op # "none" /\ ~last.loaded) =>
    /\ ~last.raised
    /\ ~last.found
    /\ last.edges = {}
    /\ node_label(g, tokens, full_ontology, CacheView, last.node)
         = node_label(g, tokens, full_ontology, NoCache, last.node)

\* A source whose download failed, then one whose download does not parse.
C13_Witness ==
  /\ log = <<BFO_3, IAO_1>>
  /\ ~last.loaded
  /\ fetches[BfoKey] = 1
  /\ files[BfoKey] = "absent"
  /\ downloads[IaoKey] = 1
  /\ files[IaoKey] = "bad"
  /\ full_ontology.present

\* C14: a file that fails to parse does not abort the batch, and every
\* other file of the batch is rendered.
C14_BatchContinues ==
  /\ outcome # "raised"
  /\ outcome = "returned" =>
       \A k \in DOMAIN ttl_files : ttl_files[k].good => k \in diagrams

\* C15: when expansion is requested and the converter has no index, the
\* expansion is skipped: nodes, edges and classes are those collected from
\* the document.
C15_MissingIndexSkips ==
  (Requested /\ ~full_ontology.present) =>
    /\ pc \notin {"hier_pick", "hier_pop", "hier_parent"}
    /\ pc \in {"assign", "done", "returned"} =>
         /\ nodes = collected.nodes
         /\ edges = collected.edges
         /\ classes = CollectClasses(g)

\* A finished call that asked for the hierarchy on a converter without index.
C15_Witness ==
  /\ pc = "returned"
  /\ call.use = "true"
  /\ ~call.ctor
  /\ ~full_ontology.present
  /\ ExA \in classes
  /\ Len(edges) >= 2

\* C20: rdf:type and rdfs:subClassOf get their fixed labels, and every other
\* predicate gets the label a node with the same IRI gets.
C20_PredicateChain ==
  pc = "done" =>
    \A pred \in DOMAIN pred_label_cache :
      pred_label_cache[pred] =
        IF pred = RDF_type THEN <<"r", "d", "f", ":", "t", "y", "p", "e">>
        ELSE IF pred = RDFS_subClassOf
        THEN <<"r", "d", "f", "s", ":", "s", "u", "b", "C", "l", "a", "s", "s", "O", "f">>
        ELSE node_label(g, tokens, full_ontology, ont, PredNode[pred])


\* The iteration order of node_infos: the order in which
\* _assign_ids_and_metadata inserted the nodes.
ItemsOrder == SortNodes(DOMAIN node_infos)

Ids(group) == [k \in DOMAIN group |-> group[k].node_id]

GroupNames == {"TBOX", "SHAPES", "CONSTRAINTS", "ABOX", "LITERALS"}

EdgeTriples(es) == [k \in DOMAIN es |-> <<es[k].sid, es[k].label, es[k].oid>>]

\* C16: for the node_infos, edges and predicate-label cache of a finished
\* render, the DOT source and the Mermaid source list the same node ids in
\* the same five groups, give every node id the same style bucket, and list
\* the same sequence of edges (source id, label, target id), an edge being
\* dashed in one exactly when it is dashed in the other.
C16_BackendConsistency ==
  pc = "done" =>
    LET m == build_mermaid(node_infos, ItemsOrder, edges, pred_label_cache)
        d == build_graphviz(node_infos, ItemsOrder, edges, pred_label_cache)
    IN  /\ \A name \in GroupNames : Ids(m.groups[name]) = Ids(d.groups[name])
        /\ m.buckets = d.buckets
        /\ EdgeTriples(m.edges) = EdgeTriples(d.edges)
        /\ \A k \in DOMAIN m.edges : m.edges[k].dashed = d.edges[k].dashed

\* A finished render with an individual typed by a class of the OBO
\* namespace: two groups, two buckets, a dashed edge.
C16_Witness ==
  /\ pc = "done"
  /\ LET m == build_mermaid(node_infos, ItemsOrder, edges, pred_label_cache)
     IN  /\ m.groups["TBOX"] # <<>> /\ m.groups["ABOX"] # <<>>
         /\ "bfo" \in {m.buckets[id] : id \in DOMAIN m.buckets}
         /\ "ind" \in {m.buckets[id] : id \in DOMAIN m.buckets}
         /\ \E k \in DOMAIN m.edges : m.edges[k].dashed
         /\ \E k \in DOMAIN m.edges : ~m.edges[k].dashed

IsAscending(sq, less(_, _)) == \A k \in 1..(Len(sq) - 1) : ~less(sq[k + 1], sq[k])

\* C17: in the source of a finished render the nodes of each group are in
\* ascending node_id order and the edges in ascending (source id, predicate
\* label, target id) order, and the source is the same for every ordering of
\* the node map and every permutation of the edge list.
C17_SortedOutput ==
  pc = "done" =>
    LET m == build_mermaid(node_infos, ItemsOrder, edges, pred_label_cache)
        d == build_graphviz(node_infos, ItemsOrder, edges, pred_label_cache)
        key(e) == [sid |-> e.sid, plabel |-> e.label, oid |-> e.oid]
    IN  /\ \A name \in GroupNames :
             /\ IsAscending(Ids(m.groups[name]), StrLess)
             /\ IsAscending(Ids(d.groups[name]), StrLess)
        /\ IsAscending([k \in DOMAIN d.edges |-> key(d.edges[k])], EdgeKeyLess)
        /\ \A ord \in Orders(DOMAIN node_infos) :
             /\ build_mermaid(node_infos, ord, edges, pred_label_cache) = m
             /\ build_graphviz(node_infos, ord, edges, pred_label_cache) = d
        /\ \A perm \in Orders(DOMAIN edges) :
             LET es == [k \in DOMAIN edges |-> edges[perm[k]]]
             IN  /\ build_mermaid(node_infos, ItemsOrder, es, pred_label_cache) = m
                 /\ build_graphviz(node_infos, ItemsOrder, es, pred_label_cache) = d

\* C18: when two render_graph calls with different hierarchy overrides are
\* interleaved on one converter, each returns what it returns when it runs
\* alone, and the converter's settings end at the values the constructor
\* stored.
C18_RenderIsolation ==
  (/\ \A t \in Callers : frames[t].pc = "returned"
   /\ <<frames[1].args.use, frames[1].args.depth>> # <<frames[2].args.use, frames[2].args.depth>>)
  => /\ \A t \in Callers : ResultOf(frames[t]) = Alone(frames[t].args)
     /\ conv.use_full_hierarchy = conv.constructed.use
     /\ conv.full_hierarchy_max_depth = conv.constructed.depth

\* C19: no step of a sequence of renders, with or without hierarchy
\* expansion, changes the labels or the parents of the index, and neither
\* does a caller that changes a set parents_of returned.
C19_IndexReadOnly ==
  [][/\ full_ontology' = full_ontology
     /\ IndexParents(store', heap') = IndexParents(store, heap)
     /\ IndexParents(store, heap) = full_ontology.parents]_vars

\* A second render has expanded the hierarchy from the index after the
\* caller changed a set it got from parents_of for a key of the index.
C19_Witness ==
  /\ pc = "done"
  /\ run = 2
  /\ cfg.use_full_hierarchy
  /\ Len(edges) > Len(collected.edges)
  /\ \E h \in held : h.key \in DOMAIN store /\ heap[h.ref] # full_ontology.parents[h.key]

\* C24: after collection every named subject and every named object of an
\* rdfs:subClassOf triple of the document is in classes.
C24_SubClassOfEndpointsAreClasses ==
  pc # "collect" =>
    \A t \in Triples(g, RDFS_subClassOf) :
      /\ IsURIRef(t[1]) => t[1] \in classes
      /\ IsURIRef(t[3]) => t[3] \in classes

\* The classes before expansion began: those of the document and those
\* remote enrichment added.
ClassesBefore ==
  LET c0   == CollectClasses(g)
      kept == {e \in UNION {superclasses(ont, c, cfg.superclass_depth) : c \in c0} :
                 e[2] \notin IMPLICIT_TOP_CLASSES}
  IN  IF cfg.enrich /\ cfg.superclass_depth > 0 /\ ont.present
      THEN c0 \cup {e[1] : e \in kept} \cup {e[2] : e \in kept}
      ELSE c0

\* The nodes at breadth-first distance at most k from a node of S in the
\* parents relation of the index.
RECURSIVE Within(_, _)
Within(S, k) ==
  LET more == S \cup UNION {parents_of(full_ontology, n) : n \in S}
  IN  IF k = 0 \/ more = S THEN S ELSE Within(more, k - 1)

\* C21: an edge the expansion adds never has the configured root as child;
\* its child is at breadth-first distance less than max_depth from a class
\* that was in classes before expansion began; with max_depth = 1 it joins
\* such a class to one of its direct parents.
C21_BranchBounds ==
  [][(pc = "hier_parent" /\ Len(edges') > Len(edges)) =>
       LET e == edges'[Len(edges')]
       IN  /\ e[1] # cfg.full_hierarchy_root
           /\ e[1] \in Within(ClassesBefore, cfg.full_hierarchy_max_depth - 1)
           /\ cfg.full_hierarchy_max_depth = 1 =>
                /\ e[1] \in ClassesBefore
                /\ e[3] \in parents_of(full_ontology, e[1])]_vars

\* Expansion to depth 2 from ex:A alone has added the edge at distance 1 and
\* not the edge at distance 2, which the index has.
C21_Witness ==
  /\ pc = "done"
  /\ cfg.use_full_hierarchy
  /\ cfg.full_hierarchy_max_depth = 2
  /\ cfg.full_hierarchy_root = BFO_1
  /\ ClassesBefore = {ExA}
  /\ <<BFO_3, RDFS_subClassOf, BFO_2>> \in SeqToSet(edges)
  /\ BFO_1 \in parents_of(full_ontology, BFO_2)
  /\ <<BFO_2, RDFS_subClassOf, BFO_1>> \notin SeqToSet(edges)

\* C22: a step of the expansion that traverses a parent edge appends
\* (child, rdfs:subClassOf, parent) only if the edge list does not have it,
\* and after the step the child and the parent are in nodes and the parent
\* is in classes, also on the step at which a size cap stops the expansion.
C22_EdgeInsertion ==
  [][(pc = "hier_parent" /\ pending # {}) =>
       \E parent \in pending :
         LET triple == <<cur.n, RDFS_subClassOf, parent>>
         IN  IF ~IsURIRef(parent) \/ parent \in IMPLICIT_TOP_CLASSES
             THEN UNCHANGED <<edges, nodes, classes>>
             ELSE /\ edges' = IF triple \in SeqToSet(edges) THEN edges
                              ELSE Append(edges, triple)
                  /\ {cur.n, parent} \subseteq nodes'
                  /\ parent \in classes']_vars

\* The expansion met a triple the document already had, added a parent that
\* was no class before, and was stopped by the node cap.
C22_Witness ==
  /\ pc = "assign"
  /\ cfg.use_full_hierarchy
  /\ Cardinality(nodes) >= cfg.max_nodes
  /\ <<ExA, RDFS_subClassOf, BFO_3>> \in g
  /\ BFO_3 \in parents_of(full_ontology, ExA)
  /\ classes \ ClassesBefore # {}
  /\ classes \subseteq nodes

\* C23: the edge list _collect_schema_and_instances returns has at most
\* max_edges entries, and when the collected edges exceed the cap the
\* truncation keeps the first max_edges of them in collection order.
C23_EdgeCap ==
  /\ pc \in {"assign", "done"} => Len(edges) <= cfg.max_edges
  /\ (pc = "enrich" /\ Len(collected.edges) > cfg.max_edges) =>
       edges = SubSeq(collected.edges, 1, cfg.max_edges)

IsPrefixOf(a, b) == Len(a) <= Len(b) /\ SubSeq(b, 1, Len(a)) = a

\* C29: no step of _add_full_hierarchy removes or reorders an element: the
\* edge list before the step is a prefix of the edge list after it, nodes
\* and classes only grow, and every appended edge is (child,
\* rdfs:subClassOf, parent) for a parent the index gives for the child.
C29_ExpansionMonotone ==
  [][(pc \in {"hier", "hier_pick", "hier_pop", "hier_parent"}) =>
       (/\ IsPrefixOf(edges, edges')
        /\ nodes \subseteq nodes'
        /\ classes \subseteq classes'
        /\ \A k \in (Len(edges) + 1)..Len(edges') :
             (edges'[k][2] = RDFS_subClassOf
              /\ edges'[k][3] \in parents_of(full_ontology, edges'[k][1])))]_vars

\* An expansion without enrichment has appended two edges behind the edges
\* of the document.
C29_Witness ==
  /\ pc = "assign"
  /\ cfg.use_full_hierarchy
  /\ ~cfg.enrich
  /\ collected.edges # <<>>
  /\ Len(collected.edges) <= cfg.max_edges
  /\ Len(edges) >= Len(collected.edges) + 2
  /\ IsPrefixOf(collected.edges, edges)

\* C30: each (child, rdfs:subClassOf, parent) triple occurs at most once in
\* the edge list _collect_schema_and_instances returns, remote enrichment
\* and hierarchy expansion included.
C30_NoDuplicateSubclassEdges ==
  pc \in {"assign", "done"} =>
    \A i, j \in DOMAIN edges :
      (edges[i][2] = RDFS_subClassOf /\ edges[i] = edges[j]) => i = j

\* The node ids a source lists, over its five groups.
EmittedIds(src) ==
  UNION {{src.groups[name][k].node_id : k \in DOMAIN src.groups[name]} : name \in GroupNames}

\* C27: every edge either renderer emits has a source and a target that the
\* same source lists as nodes, also when node truncation removed an endpoint
\* of an edge that was kept.
C27_NoDanglingEdges ==
  pc = "done" =>
    LET m == build_mermaid(node_infos, ItemsOrder, edges, pred_label_cache)
        d == build_graphviz(node_infos, ItemsOrder, edges, pred_label_cache)
    IN  /\ \A k \in DOMAIN m.edges : {m.edges[k].sid, m.edges[k].oid} \subseteq EmittedIds(m)
        /\ \A k \in DOMAIN d.edges : {d.edges[k].sid, d.edges[k].oid} \subseteq EmittedIds(d)

\* Node truncation removed an endpoint of a kept edge; the source has
\* fewer edges than the edge list, and at least one.
C27_Witness ==
  /\ pc = "done"
  /\ Cardinality(collected.nodes) > cfg.max_nodes
  /\ \E k \in DOMAIN edges : edges[k][3] \notin DOMAIN node_infos /\ edges[k][1] \in DOMAIN node_infos
  /\ LET m == build_mermaid(node_infos, ItemsOrder, edges, pred_label_cache)
     IN  m.edges # <<>> /\ Len(m.edges) < Len(edges)

\* C28: after a render_graph call, whether it returned or raised, the
\* converter's use_full_hierarchy and full_hierarchy_max_depth are the
\* values they had before the call, which are those of the constructor.
C28_OverridesDoNotPersist ==
  pc \in {"returned", "raised"} =>
    /\ cfg.use_full_hierarchy = orig.use
    /\ cfg.full_hierarchy_max_depth = orig.depth
    /\ cfg.use_full_hierarchy = (call.ctor /\ full_ontology.present)
    /\ cfg.full_hierarchy_max_depth = Max(1, call.ctor_depth)

\* A call that switched expansion on and changed the depth has raised.
C28_Witness ==
  /\ pc = "raised"
  /\ ~call.ctor
  /\ call.use = "true"
  /\ full_ontology.present
  /\ call.depth # 0
  /\ Max(1, call.depth) # call.ctor_depth

\* C25: best_label returns None only for an empty list; for any other list
\* it returns the text of one of the literals, and when a literal with an
\* empty or 'en' language tag exists (tags compared without regard to case)
\* the returned one is such a literal and no such literal is shorter.
PreferredTags == {<<>>, <<"e", "n">>, <<"E", "N">>}

C25_BestLabel ==
  chosen.done =>
    /\ chosen.none <=> (literals = <<>>)
    /\ (literals # <<>>) =>
         \E i \in DOMAIN literals :
           /\ literals[i].text = chosen.s
           /\ (\E j \in DOMAIN literals : literals[j].lang \in PreferredTags) =>
                /\ literals[i].lang \in PreferredTags
                /\ \A j \in DOMAIN literals :
                     literals[j].lang \in PreferredTags =>
                       Len(literals[i].text) <= Len(literals[j].text)

\* A shorter literal in another language comes first, then two preferred
\* literals of different lengths, the longer one first.
C25_Witness ==
  /\ chosen.done
  /\ Len(literals) = 3
  /\ literals[1].lang \notin PreferredTags /\ literals[1].text = <<>>
  /\ literals[2].lang \in PreferredTags /\ literals[2].text = <<"a", "b">>
  /\ literals[3].lang \in PreferredTags /\ literals[3].text = <<"a">>
  /\ chosen.s = <<"a">>

\* C26: after load_full_ontology_index, every key of parents is a named
\* resource with a non-empty set, and parents[child] is exactly the named
\* objects of child's rdfs:subClassOf triples together with the named
\* members of the owl:intersectionOf / owl:unionOf lists of the blank nodes
\* that child is rdfs:subClassOf or owl:equivalentClass to; no blank node is
\* a key or a member.
ListCells(graph, head) ==
  LET Step(S) == S \cup {t[3] : t \in {x \in Triples(graph, RDF_rest) : x[1] \in S}}
      c1 == Step({head})
      c2 == Step(c1)
      c3 == Step(c2)
  IN  c3

ListMembers(graph, head) ==
  {t[3] : t \in {x \in Triples(graph, RDF_first) : x[1] \in ListCells(graph, head)}}

ExpressionsOf(graph, child) ==
  {b \in Objects(graph, child, RDFS_subClassOf) \cup
          Objects(graph, child, OWL_equivalentClass) : IsBNode(b)}

StatedParents(graph, child) ==
  {o \in Objects(graph, child, RDFS_subClassOf) : IsURIRef(o)} \cup
  {m \in UNION {ListMembers(graph, h) :
                  h \in {x \in UNION {Objects(graph, b, OWL_intersectionOf) \cup
                                       Objects(graph, b, OWL_unionOf) :
                                         b \in ExpressionsOf(graph, child)} : IsBNode(x)}} :
     IsURIRef(m)}

Subjects(graph) == {t[1] : t \in graph}

====
